---- MODULE Spec2Model ----
(***************************************************************************)
(* Factory GPT: the iterative query-resolution engine (factory_gpt.py) and *)
(* the readiness protocol of the web layer around it (app.py).             *)
(*                                                                         *)
(* Text is modelled as a sequence of one-character strings, so that the    *)
(* substring scans, the case conversions and the clean-up of model output  *)
(* are computed the way the Python code computes them.                     *)
(***************************************************************************)
EXTENDS Integers, Sequences, FiniteSets, TLC

(* ------------------------------------------------------------------ *)
(* Bounds of the model                                                 *)
(* ------------------------------------------------------------------ *)

\* number of ask() calls made on one agent
MaxAsks == 2

\* longest candidate list the planning model returns
MaxCands == 3

\* number of HTTP request handlers running concurrently with init_agent
MaxRequests == 2

\* rows of the longest result set given to the formatter
MaxRows == 8

(* ------------------------------------------------------------------ *)
(* Python values                                                       *)
(* ------------------------------------------------------------------ *)

None == [tag |-> "None"]

PyStr(s) == [tag |-> "str", val |-> s]

PyList(xs) == [tag |-> "list", val |-> xs]

(* ------------------------------------------------------------------ *)
(* Text                                                                *)
(* ------------------------------------------------------------------ *)

LowerLetters ==
  <<"a","b","c","d","e","f","g","h","i","j","k","l","m",
    "n","o","p","q","r","s","t","u","v","w","x","y","z">>

UpperLetters ==
  <<"A","B","C","D","E","F","G","H","I","J","K","L","M",
    "N","O","P","Q","R","S","T","U","V","W","X","Y","Z">>

\* str.upper() on one character
UpperChar(c) ==
  IF \E k \in DOMAIN LowerLetters : LowerLetters[k] = c
  THEN UpperLetters[CHOOSE k \in DOMAIN LowerLetters : LowerLetters[k] = c]
  ELSE c

\* str.lower() on one character
LowerChar(c) ==
  IF \E k \in DOMAIN UpperLetters : UpperLetters[k] = c
  THEN LowerLetters[CHOOSE k \in DOMAIN UpperLetters : UpperLetters[k] = c]
  ELSE c

\* str.upper()
Upper(s) == [k \in DOMAIN s |-> UpperChar(s[k])]

\* str.lower()
Lower(s) == [k \in DOMAIN s |-> LowerChar(s[k])]

\* s[p : p + len(pat)] == pat
MatchAt(s, pat, p) ==
  /\ p + Len(pat) - 1 <= Len(s)
  /\ \A k \in 1..Len(pat) : s[p + k - 1] = pat[k]

\* the Python operator `pat in s` on strings
Contains(s, pat) == \E p \in 1..(Len(s) + 1) : MatchAt(s, pat, p)

\* str.replace(pat, "") : leftmost, non-overlapping occurrences are removed
RECURSIVE RemoveFrom(_, _, _)
RemoveFrom(s, pat, p) ==
  IF p > Len(s) THEN <<>>
  ELSE IF MatchAt(s, pat, p) THEN RemoveFrom(s, pat, p + Len(pat))
  ELSE <<s[p]>> \o RemoveFrom(s, pat, p + 1)

Remove(s, pat) == RemoveFrom(s, pat, 1)

Whitespace == {" ", "\n", "\t"}

\* the backtick character, which a TLA+ string cannot hold
BT == "backtick"

RECURSIVE LStrip(_)
LStrip(s) ==
  IF s # <<>> /\ Head(s) \in Whitespace THEN LStrip(Tail(s)) ELSE s

RECURSIVE RStripSet(_, _)
RStripSet(s, chars) ==
  IF s # <<>> /\ s[Len(s)] \in chars
  THEN RStripSet(SubSeq(s, 1, Len(s) - 1), chars)
  ELSE s

\* str.strip()
Strip(s) == RStripSet(LStrip(s), Whitespace)

\* str.rstrip(";")
RStripSemicolon(s) == RStripSet(s, {";"})

(* ------------------------------------------------------------------ *)
(* _execute_sql : the Safety Gate                                      *)
(* ------------------------------------------------------------------ *)

\* the keyword list with its last entry lost
disallowed_keywords_without_grant ==
  << <<"D","E","L","E","T","E">>,
     <<"D","R","O","P">>,
     <<"U","P","D","A","T","E">>,
     <<"I","N","S","E","R","T">>,
     <<"T","R","U","N","C","A","T","E">>,
     <<"A","L","T","E","R">>,
     <<"E","X","E","C">> >>

disallowed_keywords ==
  << <<"D","E","L","E","T","E">>,
     <<"D","R","O","P">>,
     <<"U","P","D","A","T","E">>,
     <<"I","N","S","E","R","T">>,
     <<"T","R","U","N","C","A","T","E">>,
     <<"A","L","T","E","R">>,
     <<"E","X","E","C">>,
     <<"G","R","A","N","T">> >>

\* the scan of the gate with the case conversion dropped
GateBlocksNoUpper(sql) ==
  \E k \in DOMAIN disallowed_keywords : Contains(sql, disallowed_keywords[k])

\* any(keyword in sql_upper for keyword in disallowed_keywords)
GateBlocks(sql) ==
  \E k \in DOMAIN disallowed_keywords :
     Contains(Upper(sql), disallowed_keywords[k])

RestrictedError ==
  PyStr("SQL Error: Query contains restricted keywords (e.g., DELETE, DROP, UPDATE).")

(* ------------------------------------------------------------------ *)
(* _understand_intent : the Intent Router                              *)
(* ------------------------------------------------------------------ *)

general_indicators ==
  << <<"h","o","w"," ","a","r","e"," ","y","o","u">>,
     <<"w","h","a","t","'","s"," ","u","p">>,
     <<"h","o","w"," ","d","o"," ","y","o","u"," ","f","e","e","l">>,
     <<"t","e","l","l"," ","m","e"," ","a","b","o","u","t"," ",
       "y","o","u","r","s","e","l","f">>,
     <<"w","h","a","t"," ","c","a","n"," ","y","o","u"," ","d","o">>,
     <<"w","h","o"," ","a","r","e"," ","y","o","u">>,
     <<"i","n","t","r","o","d","u","c","e"," ",
       "y","o","u","r","s","e","l","f">>,
     <<"a","r","e"," ","y","o","u"," ","g","p","t">>,
     <<"h","e","l","l","o">>,
     <<"h","i">>,
     <<"g","o","o","d"," ","m","o","r","n","i","n","g">>,
     <<"g","o","o","d"," ","a","f","t","e","r","n","o","o","n">>,
     <<"g","o","o","d"," ","e","v","e","n","i","n","g">>,
     <<"h","e","y">> >>

\* the router with the lower-casing of the question dropped
UnderstandIntentNoLower(q) ==
  IF \E k \in DOMAIN general_indicators : Contains(q, general_indicators[k])
  THEN "chat" ELSE "data"

\* _understand_intent(question)
UnderstandIntent(q) ==
  IF \E k \in DOMAIN general_indicators :
        Contains(Lower(q), general_indicators[k])
  THEN "chat" ELSE "data"

(* ------------------------------------------------------------------ *)
(* Python containers as the JSON parser and the database driver build  *)
(* them: a dict is an ordered sequence of <<key, value>> pairs         *)
(* ------------------------------------------------------------------ *)

PyDict(pairs) == [tag |-> "dict", val |-> pairs]

PyNum(n) == [tag |-> "num", val |-> n]

\* a float or Decimal cell of a row, held as its count of tenths
PyDec(t) == [tag |-> "dec", val |-> t]

\* dict.get(key)
DictGet(d, key) ==
  IF \E k \in DOMAIN d.val : d.val[k][1] = key
  THEN d.val[CHOOSE k \in DOMAIN d.val : d.val[k][1] = key][2]
  ELSE None

\* Python truthiness: `not v` is ~Truthy(v)
Truthy(v) ==
  CASE v.tag = "None" -> FALSE
    [] v.tag = "num"  -> v.val # 0
    [] v.tag = "dec"  -> v.val # 0
    [] OTHER          -> Len(v.val) > 0

\* the elements a `for` loop over v visits, in order
Elements(v) ==
  CASE v.tag = "list" -> v.val
    [] v.tag = "str"  -> [k \in DOMAIN v.val |-> PyStr(<<v.val[k]>>)]
    [] v.tag = "dict" -> [k \in DOMAIN v.val |-> PyStr(v.val[k][1])]

(* ------------------------------------------------------------------ *)
(* The collaborators: what the language model and the database return  *)
(* ------------------------------------------------------------------ *)

QHi == <<"H","i">>

QDowntime == <<"A","v","g"," ","d","o","w","n","t","i","m","e">>

\* the questions put to ask()
Questions == {QHi, QDowntime}

\* replies of the model on the conversational branch (before strip())
ChatReplies == { <<"o","k">>, <<" ","y","e","s","\n">> }

GoodCandidate ==
  PyDict(<< <<"table", PyStr(<<"T","1">>)>>, <<"column", PyStr(<<"C","1">>)>> >>)

NoColumnCandidate == PyDict(<< <<"table", PyStr(<<"T","1">>)>> >>)

NonDictCandidate == PyStr(<<"T","1",".","C","1">>)

CandidateItems == {GoodCandidate, NoColumnCandidate, NonDictCandidate}

CandidateLists ==
  UNION { [1..n -> CandidateItems] : n \in 0..MaxCands }

\* the lists of valid candidates one longer than MaxCands, and so longer than
\* the "TOP 3" the planning prompt asks for
LongCandidateLists == { [k \in 1..(MaxCands + 1) |-> GoodCandidate] }

NotJson == [tag |-> "notjson"]

\* what json.loads makes of the planning model's cleaned output
PlanOutputs ==
  {NotJson, PyList(<<>>), PyDict(<<>>),
   PyDict(<< <<"candidates", None>> >>),
   PyDict(<< <<"candidates", PyStr(<<"T","1">>)>> >>)}
  \cup { PyDict(<< <<"candidates", PyList(c)>> >>) : c \in CandidateLists }

\* raw replies of the model to the query-synthesis prompt
SqlReplies ==
  { <<"S","E","L","E","C","T"," ","1">>,
    <<BT,BT,BT,"s","q","l","\n","S","E","L","E","C","T"," ","2",";",
      "\n",BT,BT,BT>>,
    <<"d","r","o","p"," ","t",";">>,
    <<"D","r",BT,BT,BT,"o","P">>,
    <<"S","E","L","E","C","T"," ","u","p","d","a","t","e","d">> }

Cell(k, v) == <<k, v>>

RowsScalar == << << Cell("avg_downtime", PyNum(5400)) >> >>

RowsListing ==
  << << Cell("MACHINE_NAME", PyStr(<<"M","1">>)), Cell("v", PyNum(7)) >>,
     << Cell("MACHINE_NAME", PyStr(<<"M","2">>)), Cell("v", PyNum(9)) >> >>

\* the non-empty result sets the database returns
ResultSets == {RowsScalar, RowsListing}

\* the text of a pyodbc.Error
DbErrorText == "SQL Error: [42S02] Invalid object name"

PlanFailureMessage ==
  "My apologies, I was unable to form an initial plan. Please rephrase your question."

NoAnswerMessage ==
  "I couldn't find a definitive answer in the database. Please try rephrasing your question or check if the data exists."

(* ------------------------------------------------------------------ *)
(* format_conversational_response : the Response Formatter             *)
(* ------------------------------------------------------------------ *)

\* a fixed user-facing message
Msg(t) == [tag |-> "msg", text |-> t]

\* a rendered template with the values put into it
Fmt(t, a) == [tag |-> "fmt", template |-> t, args |-> a]

Digits == {"0","1","2","3","4","5","6","7","8","9"}

\* float(value) succeeds: a number, or text made of digits
FloatOk(v) ==
  \/ v.tag = "num"
  \/ v.tag = "dec"
  \/ (v.tag = "str" /\ v.val # <<>> /\ \A k \in DOMAIN v.val : v.val[k] \in Digits)

DigitValue(c) ==
  CASE c = "0" -> 0 [] c = "1" -> 1 [] c = "2" -> 2 [] c = "3" -> 3
    [] c = "4" -> 4 [] c = "5" -> 5 [] c = "6" -> 6 [] c = "7" -> 7
    [] c = "8" -> 8 [] c = "9" -> 9

RECURSIVE DigitsValue(_)
DigitsValue(s) ==
  IF s = <<>> THEN 0
  ELSE 10 * DigitsValue(SubSeq(s, 1, Len(s) - 1)) + DigitValue(s[Len(s)])

\* float(value): the number as its count of tenths (the values of the model
\* are non-negative and have at most one decimal)
Float(v) ==
  CASE v.tag = "dec" -> v.val
    [] v.tag = "num" -> 10 * v.val
    [] OTHER         -> 10 * DigitsValue(v.val)

DigitChar(d) ==
  CASE d = 0 -> "0" [] d = 1 -> "1" [] d = 2 -> "2" [] d = 3 -> "3"
    [] d = 4 -> "4" [] d = 5 -> "5" [] d = 6 -> "6" [] d = 7 -> "7"
    [] d = 8 -> "8" [] d = 9 -> "9"

\* the decimal digits of a natural number
RECURSIVE IntText(_)
IntText(n) ==
  IF n < 10 THEN <<DigitChar(n)>>
  ELSE IntText(n \div 10) \o <<DigitChar(n % 10)>>

\* the "," of a format specification: digits in groups of three from the right
RECURSIVE Grouped(_)
Grouped(n) ==
  IF n < 1000 THEN IntText(n)
  ELSE Grouped(n \div 1000)
         \o <<",", DigitChar((n % 1000) \div 100),
                   DigitChar((n % 100) \div 10), DigitChar(n % 10)>>

\* the integer nearest to n/d, a tie going to the even neighbour
RoundHalfEven(n, d) ==
  LET q == n \div d
      r == n % d
  IN IF 2 * r < d THEN q
     ELSE IF 2 * r > d THEN q + 1
     ELSE IF q % 2 = 0 THEN q ELSE q + 1

\* f"{value:.0f}", without the grouping option
Format_0fUngrouped(value) == IntText(RoundHalfEven(value, 10))

\* f"{value:,.0f}": a value of x.5 is exact in binary, so the tie goes to even
Format_0f(value) == Grouped(RoundHalfEven(value, 10))

\* f"{value:,.2f}"
Format_2f(value) == Grouped(value \div 10) \o <<".", DigitChar(value % 10), "0">>

OneDecimal(tenths) == IntText(tenths \div 10) \o <<".", DigitChar(tenths % 10)>>

\* f"{x:.1f}" for x = n / d: the texts the build can produce.  Where n/d lies
\* exactly between two tenths the binary quotient decides, so both neighbours
\* are possible; everywhere else there is one text.
Format_1f(n, d) ==
  IF 2 * ((10 * n) % d) = d
  THEN {OneDecimal((10 * n) \div d), OneDecimal((10 * n) \div d + 1)}
  ELSE {OneDecimal(RoundHalfEven(10 * n, d))}

\* the same with the threshold test `>=`
FormatTimeDurationInclusive(seconds) ==
  IF seconds >= 10 * 3600
    THEN [seconds |-> Format_0f(seconds), equivalent |-> "hours",
          amount |-> Format_1f(seconds, 10 * 3600)]
  ELSE IF seconds >= 10 * 60
    THEN [seconds |-> Format_0f(seconds), equivalent |-> "minutes",
          amount |-> Format_1f(seconds, 10 * 60)]
  ELSE [seconds |-> Format_0f(seconds), equivalent |-> "none", amount |-> {}]

\* _format_time_duration(seconds), seconds in tenths: the seconds as shown,
\* the unit of the equivalent and the amount shown in that unit
FormatTimeDuration(seconds) ==
  IF seconds > 10 * 3600
    THEN [seconds |-> Format_0f(seconds), equivalent |-> "hours",
          amount |-> Format_1f(seconds, 10 * 3600)]
  ELSE IF seconds > 10 * 60
    THEN [seconds |-> Format_0f(seconds), equivalent |-> "minutes",
          amount |-> Format_1f(seconds, 10 * 60)]
  ELSE [seconds |-> Format_0f(seconds), equivalent |-> "none", amount |-> {}]

W_production == <<"p","r","o","d","u","c","t","i","o","n">>
W_count == <<"c","o","u","n","t">>
W_downtime == <<"d","o","w","n","t","i","m","e">>
W_average == <<"a","v","e","r","a","g","e">>
W_avg == <<"a","v","g">>
W_total == <<"t","o","t","a","l">>
W_sum == <<"s","u","m">>
W_cycletime == <<"c","y","c","l","e","t","i","m","e">>
W_cycle_time == <<"c","y","c","l","e"," ","t","i","m","e">>
W_highest == <<"h","i","g","h","e","s","t">>

\* Case 1 with the downtime test placed before the production test
FormatScalarDowntimeFirst(ql, row) ==
  LET value == row[1][2] IN
  IF ~FloatOk(value) THEN Fmt("The result is: {value}", <<value>>)
  ELSE IF Contains(ql, W_downtime) THEN
    IF Contains(ql, W_average) \/ Contains(ql, W_avg)
      THEN Fmt("The average downtime is {duration}",
               <<FormatTimeDuration(Float(value))>>)
    ELSE IF Contains(ql, W_total) \/ Contains(ql, W_sum)
      THEN Fmt("The total downtime is {duration}",
               <<FormatTimeDuration(Float(value))>>)
    ELSE Fmt("The most recent downtime is {duration}",
             <<FormatTimeDuration(Float(value))>>)
  ELSE IF Contains(ql, W_production) \/ Contains(ql, W_count)
    THEN Fmt("The total production count is {value:,.0f} units",
             <<Format_0f(Float(value))>>)
  ELSE IF Contains(ql, W_cycletime) \/ Contains(ql, W_cycle_time) THEN
    IF Contains(ql, W_average) \/ Contains(ql, W_avg)
      THEN Fmt("The average cycle time is {value:,.2f} seconds",
               <<Format_2f(Float(value))>>)
    ELSE Fmt("The most recent cycle time is {value:,.2f} seconds",
             <<Format_2f(Float(value))>>)
  ELSE Fmt("The result is {value:,.2f}", <<Format_2f(Float(value))>>)

\* Case 1: single row, single value
FormatScalar(ql, row) ==
  LET value == row[1][2] IN
  IF ~FloatOk(value) THEN Fmt("The result is: {value}", <<value>>)
  ELSE IF Contains(ql, W_production) \/ Contains(ql, W_count)
    THEN Fmt("The total production count is {value:,.0f} units", <<Format_0f(Float(value))>>)
  ELSE IF Contains(ql, W_downtime) THEN
    IF Contains(ql, W_average) \/ Contains(ql, W_avg)
      THEN Fmt("The average downtime is {duration}",
               <<FormatTimeDuration(Float(value))>>)
    ELSE IF Contains(ql, W_total) \/ Contains(ql, W_sum)
      THEN Fmt("The total downtime is {duration}",
               <<FormatTimeDuration(Float(value))>>)
    ELSE Fmt("The most recent downtime is {duration}",
             <<FormatTimeDuration(Float(value))>>)
  ELSE IF Contains(ql, W_cycletime) \/ Contains(ql, W_cycle_time) THEN
    IF Contains(ql, W_average) \/ Contains(ql, W_avg)
      THEN Fmt("The average cycle time is {value:,.2f} seconds", <<Format_2f(Float(value))>>)
    ELSE Fmt("The most recent cycle time is {value:,.2f} seconds", <<Format_2f(Float(value))>>)
  ELSE Fmt("The result is {value:,.2f}", <<Format_2f(Float(value))>>)

\* Fallback: the JSON dump of the whole result
FormatFallback(result) == Fmt("Here's what I found: {json}", <<result>>)

\* result[0].get('MACHINE_NAME') or result[0].get('MACHINE_GROUP')
MachineNameOf(row) ==
  LET d == PyDict(row) IN
  IF Truthy(DictGet(d, "MACHINE_NAME")) THEN DictGet(d, "MACHINE_NAME")
  ELSE DictGet(d, "MACHINE_GROUP")

\* positions of the keys that are neither MACHINE_NAME nor MACHINE_GROUP
ValueKeyPositions(row) ==
  {k \in DOMAIN row : row[k][1] \notin {"MACHINE_NAME", "MACHINE_GROUP"}}

Min(S) == CHOOSE x \in S : \A y \in S : x <= y

\* Case 2 returns a phrase (it can also fall through to the code after it)
PairReturns(ql, row) ==
  /\ Truthy(MachineNameOf(row))
  /\ \E k \in ValueKeyPositions(row) : row[k][1] # ""
  /\ LET vk == Min(ValueKeyPositions(row)) IN
       /\ row[vk][1] # ""
       /\ \/ ~FloatOk(row[vk][2])
          \/ Contains(ql, W_downtime)
          \/ Contains(ql, W_cycletime)
          \/ Contains(ql, W_cycle_time)
          \/ Contains(ql, W_production)

\* Case 2: single row, multiple values
FormatPair(ql, row) ==
  LET machine_name == MachineNameOf(row)
      vk == Min(ValueKeyPositions(row))
      value == row[vk][2]
      operation == IF Contains(ql, W_highest) THEN "highest" ELSE "lowest"
  IN
  IF ~FloatOk(value)
    THEN Fmt("Found data for {machine_name}: {value}", <<machine_name, value>>)
  ELSE IF Contains(ql, W_downtime)
    THEN Fmt("The machine with the {operation} downtime is {machine_name} with {duration}",
             <<operation, machine_name, FormatTimeDuration(Float(value))>>)
  ELSE IF Contains(ql, W_cycletime) \/ Contains(ql, W_cycle_time)
    THEN Fmt("The machine with the {operation} cycle time is {machine_name} with {value:,.2f} seconds",
             <<operation, machine_name, Format_2f(Float(value))>>)
  ELSE Fmt("The machine with the {operation} production is {machine_name} with {value:,.0f} units",
           <<operation, machine_name, Format_0f(Float(value))>>)

\* Case 3 without the [:5] slice
FormatListingAll(result) ==
  Fmt("Found {len(result)} results. Here are the top 5: {rows}",
      <<Len(result), [k \in 1..Len(result) |-> <<k, result[k]>>]>>)

\* Case 3: multiple rows; result[:5] is numbered from 1
FormatListing(result) ==
  Fmt("Found {len(result)} results. Here are the top 5: {rows}",
      <<Len(result),
        [k \in 1..(IF Len(result) < 5 THEN Len(result) ELSE 5) |-> <<k, result[k]>>]>>)

\* format_conversational_response(question, result)
FormatConversationalResponse(q, result) ==
  LET ql == Lower(q) IN
  IF Len(result) > 0 THEN
    IF Len(result) = 1 /\ Len(result[1]) = 1 THEN FormatScalar(ql, result[1])
    ELSE IF Len(result) = 1 /\ Len(result[1]) > 1 /\ PairReturns(ql, result[1])
      THEN FormatPair(ql, result[1])
    ELSE IF Len(result) > 1 THEN FormatListing(result)
    ELSE FormatFallback(result)
  ELSE FormatFallback(result)

(* ------------------------------------------------------------------ *)
(* _learn_machines_from_column : the tokenizer of the Vocabulary       *)
(* Learner                                                             *)
(* ------------------------------------------------------------------ *)

LowerSet == {LowerLetters[k] : k \in DOMAIN LowerLetters}

UpperSet == {UpperLetters[k] : k \in DOMAIN UpperLetters}

\* the class [a-zA-Z0-9]
Alnum == LowerSet \cup UpperSet \cup Digits

\* re.split(r'[^a-zA-Z0-9]', name): cut at every single character outside the
\* class; two cuts in a row leave an empty piece between them
RECURSIVE ReSplit(_)
ReSplit(name) ==
  IF \E p \in DOMAIN name : name[p] \notin Alnum
  THEN LET p == CHOOSE q \in DOMAIN name :
                  /\ name[q] \notin Alnum
                  /\ \A r \in 1..(q - 1) : name[r] \in Alnum
       IN <<SubSeq(name, 1, p - 1)>> \o ReSplit(SubSeq(name, p + 1, Len(name)))
  ELSE <<name>>

\* length of the longest prefix of s made of characters of class
RECURSIVE RunLength(_, _)
RunLength(s, class) ==
  IF s = <<>> \/ Head(s) \notin class THEN 0
  ELSE 1 + RunLength(Tail(s), class)

\* re.findall(r'[A-Z][a-z]*|[0-9]+|[a-z]+', name): leftmost matches, each as
\* long as its alternative allows; other characters are passed over
RECURSIVE ReFindall(_)
ReFindall(name) ==
  IF name = <<>> THEN <<>>
  ELSE LET m == IF Head(name) \in UpperSet THEN 1 + RunLength(Tail(name), LowerSet)
                ELSE IF Head(name) \in Digits THEN RunLength(name, Digits)
                ELSE IF Head(name) \in LowerSet THEN RunLength(name, LowerSet)
                ELSE 0
       IN IF m = 0 THEN ReFindall(Tail(name))
          ELSE <<SubSeq(name, 1, m)>> \o ReFindall(SubSeq(name, m + 1, Len(name)))

\* the test with every non-empty token kept
KeepTokenOfAnyLength(clean_token) == Len(clean_token) > 0

\* if len(clean_token) > 2
KeepToken(clean_token) == Len(clean_token) > 2

\* self.machine_intelligence = {}
EmptyVocabulary == [t \in {} |-> {}]

\* if clean_token not in mi: mi[clean_token] = set();  mi[clean_token].add(name)
AddName(mi, clean_token, name) ==
  [t \in DOMAIN mi \cup {clean_token} |->
     IF t \notin DOMAIN mi THEN {name}
     ELSE IF t = clean_token THEN mi[t] \cup {name}
     ELSE mi[t]]

\* for token in all_tokens: ...
RECURSIVE LearnTokens(_, _, _)
LearnTokens(mi, all_tokens, name) ==
  IF all_tokens = <<>> THEN mi
  ELSE LET clean_token == Strip(Lower(Head(all_tokens)))
       IN LearnTokens(IF KeepToken(clean_token) THEN AddName(mi, clean_token, name)
                      ELSE mi,
                      Tail(all_tokens), name)

\* the body of the loop taking the whole name as its only token
LearnOneNameUnsplit(mi, name) ==
  LearnTokens(mi, <<name.val>>, name)

\* the body of `for name in machine_names` for a name that is text
LearnOneName(mi, name) ==
  LearnTokens(mi, ReSplit(name.val) \o ReFindall(name.val), name)

(* ------------------------------------------------------------------ *)
(* The database the learner scans at start-up                          *)
(* ------------------------------------------------------------------ *)

MacLine2A == PyStr(<<"M","a","c","L","i","n","e","2","A">>)

mac_line_2b == PyStr(<<"m","a","c","_","l","i","n","e","_","2","b">>)

\* cursor.tables(tableType='TABLE') with cursor.columns(table) of each table
AllTables ==
  << [table_name |-> <<"s","y","s","d","i","a","g","r","a","m","s">>, column_names |-> {"MACHINE_NAME"}],
     [table_name |-> <<"M","a","c","h","i","n","e","s">>,
      column_names |-> {"ID", "MACHINE_NAME", "MACHINE_GROUP"}],
     [table_name |-> <<"S","h","i","f","t","s">>, column_names |-> {"ID", "SHIFT"}],
     [table_name |-> <<"u","p","d","a","t","e","_","l","o","g">>, column_names |-> {"MACHINE_GROUP"}] >>

\* the rows a SELECT DISTINCT of an identity column returns: row[0] of each
ColumnValues ==
  { <<MacLine2A, mac_line_2b>>,
    <<PyStr(<<>>), PyStr(<<"P","r","e","s","s"," ","7">>), PyNum(7), PyStr(<<"W","e","l","d">>)>> }

ColumnText(column) ==
  IF column = "MACHINE_NAME" THEN <<"M","A","C","H","I","N","E","_","N","A","M","E">>
  ELSE <<"M","A","C","H","I","N","E","_","G","R","O","U","P">>

\* f"SELECT DISTINCT {column} FROM {table} WHERE {column} IS NOT NULL"
LearnStatement(table, column) ==
  <<"S","E","L","E","C","T"," ","D","I","S","T","I","N","C","T"," ">> \o ColumnText(column)
    \o <<" ","F","R","O","M"," ">> \o table
    \o <<" ","W","H","E","R","E"," ">> \o ColumnText(column)
    \o <<" ","I","S"," ","N","O","T"," ","N","U","L","L">>

(* ------------------------------------------------------------------ *)
(* State                                                               *)
(* ------------------------------------------------------------------ *)

VARIABLES
  pc,                    \* position of the running ask() call
  asks,                  \* number of ask() calls started on this agent
  conversation_history,  \* self.conversation_history
  question,              \* the argument of ask()
  intent,                \* local of ask()
  candidates,            \* local of ask()
  i,                     \* number of candidates the loop has taken so far
  sql_query,             \* local of ask(), the argument of _execute_sql
  sql_result,            \* first component of what _execute_sql returned
  error,                 \* second component of what _execute_sql returned
  successful_result,     \* local of ask()
  successful_sql,        \* local of ask()
  result,                \* how ask() ended: a returned value or a raised exception
  llm_calls,             \* self.llm.invoke calls made by the running ask()
  connections,           \* pyodbc.connect calls that succeeded in the running ask()
  open_connections,      \* connections _execute_sql has opened that are not closed yet
  cursor_sql,            \* the statement last handed to cursor.execute, if any
  attempts,              \* what became of each candidate taken: skipped, gate, error, empty, rows
  formatter_calls,       \* arguments of each format_conversational_response call
  history_at_call,       \* conversation_history as it was when ask() was called
  agent,                 \* app.py global
  agent_initialized,     \* app.py global
  agent_error,           \* app.py global
  init_pc,               \* position of the init_agent thread
  init_exception,        \* the exception in flight in init_agent, if any
  requests,              \* position and locals of each request handler
  machine_intelligence,  \* self.machine_intelligence: token -> set of names
  learn_pc,              \* position of learn_machine_intelligence
  relevant_tables,       \* local of learn_machine_intelligence
  table_index,           \* how many of relevant_tables the loop has taken
  column,                \* argument of _learn_machines_from_column
  machine_names,         \* local of _learn_machines_from_column
  names_done,            \* how many of machine_names the loop has taken
  learner_sql,           \* the statements the learner handed to cursor.execute
  learn_errors,          \* where the learner's scan met an exception
  llm                    \* self.llm: the model behind llm.invoke

askVars ==
  <<pc, asks, conversation_history, question, intent, candidates, i, sql_query,
    sql_result, error, successful_result, successful_sql, result,
    llm_calls, connections, open_connections, cursor_sql, attempts, formatter_calls,
    history_at_call>>

learnVars ==
  <<machine_intelligence, learn_pc, relevant_tables, table_index, column,
    machine_names, names_done, learner_sql, learn_errors>>

webVars ==
  <<agent, agent_initialized, agent_error, init_pc, init_exception, requests,
    learnVars>>

appVars == <<webVars, llm>>

vars == <<askVars, appVars>>

Return(v) == [kind |-> "return", value |-> v]

\* what became of a candidate, and the rows the database returned for it
Outcome(o) == [outcome |-> o]

RowsOutcome(rows) == [outcome |-> "rows", rows |-> rows]

Raise(e) == [kind |-> "raise", exception |-> e]

\* the learner before learn_machine_intelligence is called
InitLearn ==
  /\ machine_intelligence = EmptyVocabulary
  /\ learn_pc = "connect"
  /\ relevant_tables = <<>>
  /\ table_index = 0
  /\ column = "none"
  /\ machine_names = <<>>
  /\ names_done = 0
  /\ learner_sql = <<>>
  /\ learn_errors = <<>>

\* the module-level state of app.py before any thread has run
InitGlobals ==
  /\ agent = None
  /\ agent_initialized = FALSE
  /\ agent_error = None
  /\ init_pc = "not_started"
  /\ init_exception = None
  /\ requests = [r \in 1..MaxRequests |-> [pc |-> "idle"]]

\* a model that may answer a prompt with any of its replies
FreeModel == [deterministic |-> FALSE, replies |-> {}]

\* a stub that answers a prompt it has seen before with the reply it gave then
StubModel == [deterministic |-> TRUE, replies |-> {}]

InitApp == InitGlobals /\ InitLearn /\ llm = FreeModel

\* the locals of ask() before the call
InitLocals ==
  /\ intent = "unset"
  /\ candidates = None
  /\ i = 0
  /\ sql_query = <<>>
  /\ sql_result = None
  /\ error = None
  /\ successful_result = None
  /\ successful_sql = None
  /\ result = None
  /\ llm_calls = 0
  /\ connections = 0
  /\ open_connections = 0
  /\ cursor_sql = None
  /\ attempts = <<>>
  /\ formatter_calls = <<>>
  /\ history_at_call = <<>>

\* a constructed agent on which ask() has not been called yet
Init ==
  /\ pc = "idle"
  /\ asks = 0
  /\ conversation_history = <<>>
  /\ question = <<>>
  /\ InitLocals
  /\ InitApp

(* ------------------------------------------------------------------ *)
(* ask()                                                               *)
(* ------------------------------------------------------------------ *)

\* a caller invokes agent.ask(q); the previous call, if any, has ended
AskCall ==
  /\ pc \in {"idle", "done"}
  /\ asks < MaxAsks
  /\ \E q \in Questions : question' = q
  /\ asks' = asks + 1
  /\ pc' = "intent"
  /\ intent' = "unset"
  /\ candidates' = None
  /\ i' = 0
  /\ sql_query' = <<>>
  /\ sql_result' = None
  /\ error' = None
  /\ successful_result' = None
  /\ successful_sql' = None
  /\ result' = None
  /\ llm_calls' = 0
  /\ connections' = 0
  /\ cursor_sql' = None
  /\ attempts' = <<>>
  /\ formatter_calls' = <<>>
  /\ history_at_call' = conversation_history
  /\ UNCHANGED <<conversation_history, open_connections, appVars>>

\* the router handing every question to the data pipeline
RouteAlwaysPlans ==
  /\ pc = "intent"
  /\ intent' = UnderstandIntent(question)
  /\ pc' = "plan"
  /\ UNCHANGED <<asks, conversation_history, question, candidates, i, sql_query,
                 sql_result, error, successful_result, successful_sql, result,
                 llm_calls, connections, open_connections, cursor_sql, attempts, formatter_calls,
                 history_at_call, appVars>>

\* intent = self._understand_intent(question)
Route ==
  /\ pc = "intent"
  /\ intent' = UnderstandIntent(question)
  /\ pc' = IF intent' = "chat" THEN "chat" ELSE "plan"
  /\ UNCHANGED <<asks, conversation_history, question, candidates, i, sql_query,
                 sql_result, error, successful_result, successful_sql, result,
                 llm_calls, connections, open_connections, cursor_sql, attempts, formatter_calls,
                 history_at_call, appVars>>

UserTurn(q) == [role |-> "user", content |-> PyStr(q)]

AssistantTurn(a) == [role |-> "assistant", content |-> a]

AssistantSqlTurn(a, sql) ==
  [role |-> "assistant", content |-> a, sql_executed |-> sql]

\* seq[-n:]
Last(seq, n) ==
  SubSeq(seq, IF Len(seq) > n THEN Len(seq) - n + 1 ELSE 1, Len(seq))

\* what a prompt is built from: the call site, the question, the history
\* entries, the machine keywords and the candidate put into it (the schema
\* and the fixed text are the same in every prompt of a site)
Prompt(site, history, keywords, target) ==
  [site |-> site, question |-> question, history |-> history,
   keywords |-> keywords, target |-> target]

\* the prompt of _handle_general_conversation
ChatPrompt == Prompt("chat", Last(conversation_history, 5), {}, None)

\* the planning prompt with the number of the call put into it
PlanningPromptNumbered ==
  Prompt("plan", Last(conversation_history, 10) \o <<asks>>,
         DOMAIN machine_intelligence, None)

\* planning_prompt
PlanningPrompt ==
  Prompt("plan", Last(conversation_history, 10), DOMAIN machine_intelligence,
         None)

\* sql_generation_prompt
SqlGenerationPrompt ==
  Prompt("synth", <<>>, {}, Elements(candidates)[i])

\* self.llm.invoke(prompt) may return reply; a stub keeps the prompt and the
\* reply, and with them the question and history of the call they belong to
Invoke(prompt, reply) ==
  /\ llm.deterministic =>
        \A e \in llm.replies : e[1] = prompt => e[2] = reply
  /\ llm' = IF llm.deterministic
            THEN [llm EXCEPT !.replies =
                    @ \cup {<<prompt, reply,
                              [question |-> question, history |-> history_at_call]>>}]
            ELSE llm

\* the chat branch keeping only the turns of the running call
GeneralConversationFresh ==
  /\ pc = "chat"
  /\ \E reply \in ChatReplies :
       LET answer == PyStr(Strip(reply)) IN
         /\ Invoke(ChatPrompt, PyStr(reply))
         /\ conversation_history' = <<UserTurn(question), AssistantTurn(answer)>>
         /\ result' = Return(answer)
  /\ llm_calls' = llm_calls + 1
  /\ pc' = "done"
  /\ UNCHANGED <<asks, question, intent, candidates, i, sql_query, sql_result,
                 error, successful_result, successful_sql, connections, open_connections,
                 cursor_sql, attempts, formatter_calls, history_at_call, webVars>>

\* the chat branch: _handle_general_conversation, two appends, return
GeneralConversation ==
  /\ pc = "chat"
  /\ \E reply \in ChatReplies :
       LET answer == PyStr(Strip(reply)) IN
         /\ Invoke(ChatPrompt, PyStr(reply))
         /\ conversation_history' =
              conversation_history \o <<UserTurn(question), AssistantTurn(answer)>>
         /\ result' = Return(answer)
  /\ llm_calls' = llm_calls + 1
  /\ pc' = "done"
  /\ UNCHANGED <<asks, question, intent, candidates, i, sql_query, sql_result,
                 error, successful_result, successful_sql, connections, open_connections,
                 cursor_sql, attempts, formatter_calls, history_at_call, webVars>>

\* json.loads(content)["candidates"] and len(candidates): the exception raised, or "none"
PlanException(out) ==
  CASE out.tag = "notjson" -> "JSONDecodeError"
    [] out.tag = "dict" ->
         IF \A k \in DOMAIN out.val : out.val[k][1] # "candidates" THEN "KeyError"
         ELSE IF DictGet(out, "candidates").tag \in {"None", "num"} THEN "TypeError"
         ELSE "none"
    [] OTHER -> "TypeError"

\* except (json.JSONDecodeError, KeyError)
PlanCaught(exc) == exc \in {"JSONDecodeError", "KeyError"}

\* Stage 1: the planning call and the parse of its output
Plan ==
  /\ pc = "plan"
  /\ llm_calls' = llm_calls + 1
  /\ \E out \in PlanOutputs :
       LET exc == PlanException(out) IN
         /\ Invoke(PlanningPrompt, out)
         /\ IF exc = "none"
            THEN /\ candidates' = DictGet(out, "candidates")
                 /\ pc' = "loop"
                 /\ result' = result
            ELSE /\ candidates' = candidates
                 /\ pc' = "done"
                 /\ result' = IF PlanCaught(exc)
                              THEN Return(Msg(PlanFailureMessage))
                              ELSE Raise(exc)
  /\ UNCHANGED <<asks, conversation_history, question, intent, i, sql_query,
                 sql_result, error, successful_result, successful_sql,
                 connections, open_connections, cursor_sql, attempts, formatter_calls,
                 history_at_call, webVars>>

\* response.content.strip().replace("```sql", "").replace("```", "").strip().rstrip(";")
CleanSql(reply) ==
  RStripSemicolon(
    Strip(Remove(Remove(Strip(reply), <<BT, BT, BT, "s", "q", "l">>),
                 <<BT, BT, BT>>)))

\* Stage 2, head of the loop: take the next candidate, or leave the loop
LoopNext ==
  /\ pc = "loop"
  /\ IF i >= Len(Elements(candidates))
     THEN /\ pc' = "synthesis"
          /\ UNCHANGED <<i, attempts, result>>
     ELSE LET candidate == Elements(candidates)[i + 1] IN
          /\ i' = i + 1
          /\ IF candidate.tag # "dict"
             THEN \* candidate.get raises AttributeError, which nothing catches
                  /\ pc' = "done"
                  /\ result' = Raise("AttributeError")
                  /\ attempts' = attempts
             ELSE IF ~Truthy(DictGet(candidate, "table"))
                     \/ ~Truthy(DictGet(candidate, "column"))
             THEN /\ pc' = "loop"
                  /\ attempts' = Append(attempts, Outcome("skipped"))
                  /\ result' = result
             ELSE /\ pc' = "synth"
                  /\ attempts' = attempts
                  /\ result' = result
  /\ UNCHANGED <<asks, conversation_history, question, intent, candidates,
                 sql_query, sql_result, error, successful_result, successful_sql,
                 llm_calls, connections, open_connections, cursor_sql, formatter_calls, history_at_call, appVars>>

\* the Query Synthesizer: one model call, and the clean-up of its reply
Synthesize ==
  /\ pc = "synth"
  /\ \E reply \in SqlReplies :
       /\ Invoke(SqlGenerationPrompt, PyStr(reply))
       /\ sql_query' = CleanSql(reply)
  /\ llm_calls' = llm_calls + 1
  /\ pc' = "execute_sql"
  /\ UNCHANGED <<asks, conversation_history, question, intent, candidates, i,
                 sql_result, error, successful_result, successful_sql, result,
                 connections, open_connections, cursor_sql, attempts, formatter_calls,
                 history_at_call, webVars>>

\* _execute_sql, the Safety Gate: reject, or go on to the connection
SafetyGate ==
  /\ pc = "execute_sql"
  /\ IF GateBlocks(sql_query)
     THEN /\ sql_result' = None
          /\ error' = RestrictedError
          /\ attempts' = Append(attempts, Outcome("gate"))
          /\ pc' = "executed"
     ELSE /\ pc' = "connect"
          /\ UNCHANGED <<sql_result, error, attempts>>
  /\ UNCHANGED <<asks, conversation_history, question, intent, candidates, i,
                 sql_query, successful_result, successful_sql, result, llm_calls,
                 connections, open_connections, cursor_sql, formatter_calls, history_at_call, appVars>>

\* pyodbc.connect raises pyodbc.Error
ConnectFails ==
  /\ pc = "connect"
  /\ sql_result' = None
  /\ error' = PyStr(DbErrorText)
  /\ attempts' = Append(attempts, Outcome("error"))
  /\ pc' = "executed"
  /\ UNCHANGED <<connections, open_connections, cursor_sql>>

\* with pyodbc.connect(self.db_connection_string) as conn: the connection
\* of this call is open and bound to the local name conn
Connect ==
  /\ pc = "connect"
  /\ connections' = connections + 1
  /\ open_connections' = open_connections + 1
  /\ pc' = "connected"
  /\ UNCHANGED <<cursor_sql, sql_result, error, attempts>>

\* the error path with the connection kept by the agent after the call
ExecuteFailsKeepingConnection ==
  /\ pc = "connected"
  /\ cursor_sql' = PyStr(sql_query)
  /\ sql_result' = None
  /\ error' = PyStr(DbErrorText)
  /\ attempts' = Append(attempts, Outcome("error"))
  /\ pc' = "executed"
  /\ UNCHANGED <<connections, open_connections>>

\* cursor.execute or cursor.fetchall raises pyodbc.Error: the with block is
\* left through the handler, and the return drops conn and cursor, the only
\* references to the connection, which closes it
ExecuteFails ==
  /\ pc = "connected"
  /\ cursor_sql' = PyStr(sql_query)
  /\ sql_result' = None
  /\ error' = PyStr(DbErrorText)
  /\ attempts' = Append(attempts, Outcome("error"))
  /\ open_connections' = open_connections - 1
  /\ pc' = "executed"
  /\ UNCHANGED connections

\* the statement runs: results = [dict(zip(columns, row)) ...] if rows else [];
\* the return leaves the with block and drops conn and cursor
ExecuteReturns ==
  /\ pc = "connected"
  /\ cursor_sql' = PyStr(sql_query)
  /\ \E rows \in ResultSets \cup {<<>>} :
       /\ sql_result' = PyList(rows)
       /\ attempts' = Append(attempts, IF rows = <<>> THEN Outcome("empty")
                                             ELSE RowsOutcome(rows))
  /\ error' = None
  /\ open_connections' = open_connections - 1
  /\ pc' = "executed"
  /\ UNCHANGED connections

\* _execute_sql, the Executor: the try block around the connection
Execute ==
  /\ \/ ConnectFails
     \/ Connect
     \/ ExecuteFails
     \/ ExecuteReturns
  /\ UNCHANGED <<asks, conversation_history, question, intent, candidates, i,
                 sql_query, successful_result, successful_sql, result, llm_calls,
                 formatter_calls, history_at_call, appVars>>

\* the loop body with the `if not sql_result: continue` test left out
CheckResultNoEmptyTest ==
  /\ pc = "executed"
  /\ IF Truthy(error)
     THEN /\ pc' = "loop"
          /\ UNCHANGED <<successful_result, successful_sql>>
     ELSE /\ successful_result' = sql_result
          /\ successful_sql' = PyStr(sql_query)
          /\ pc' = "synthesis"
  /\ UNCHANGED <<asks, conversation_history, question, intent, candidates, i,
                 sql_query, sql_result, error, result, llm_calls, connections, open_connections,
                 cursor_sql, attempts, formatter_calls, history_at_call, appVars>>

\* the loop body with the `break` after a success left out
CheckResultNoBreak ==
  /\ pc = "executed"
  /\ IF Truthy(error)
     THEN /\ pc' = "loop"
          /\ UNCHANGED <<successful_result, successful_sql>>
     ELSE IF ~Truthy(sql_result)
     THEN /\ pc' = "loop"
          /\ UNCHANGED <<successful_result, successful_sql>>
     ELSE /\ successful_result' = sql_result
          /\ successful_sql' = PyStr(sql_query)
          /\ pc' = "loop"
  /\ UNCHANGED <<asks, conversation_history, question, intent, candidates, i,
                 sql_query, sql_result, error, result, llm_calls, connections, open_connections,
                 cursor_sql, attempts, formatter_calls, history_at_call, appVars>>

\* Stage 2, after _execute_sql: `if error`, `if not sql_result`, else success
CheckResult ==
  /\ pc = "executed"
  /\ IF Truthy(error)
     THEN /\ pc' = "loop"
          /\ UNCHANGED <<successful_result, successful_sql>>
     ELSE IF ~Truthy(sql_result)
     THEN /\ pc' = "loop"
          /\ UNCHANGED <<successful_result, successful_sql>>
     ELSE /\ successful_result' = sql_result
          /\ successful_sql' = PyStr(sql_query)
          /\ pc' = "synthesis"
  /\ UNCHANGED <<asks, conversation_history, question, intent, candidates, i,
                 sql_query, sql_result, error, result, llm_calls, connections, open_connections,
                 cursor_sql, attempts, formatter_calls, history_at_call, appVars>>

\* Stage 3 with the `if successful_result` guard left out
SynthesisUnguarded ==
  /\ pc = "synthesis"
  /\ LET rows == IF successful_result = None THEN <<>> ELSE successful_result.val
         answer == FormatConversationalResponse(question, rows)
     IN /\ formatter_calls' = Append(formatter_calls, <<question, rows>>)
        /\ conversation_history' =
             conversation_history \o
               <<UserTurn(question), AssistantSqlTurn(answer, successful_sql)>>
        /\ result' = Return(answer)
  /\ pc' = "done"
  /\ UNCHANGED <<asks, question, intent, candidates, i, sql_query, sql_result,
                 error, successful_result, successful_sql, llm_calls, connections, open_connections,
                 cursor_sql, attempts, history_at_call, appVars>>

\* Stage 3: format and record the answer, or give the no-answer message
Synthesis ==
  /\ pc = "synthesis"
  /\ IF Truthy(successful_result)
     THEN LET answer == FormatConversationalResponse(question, successful_result.val)
          IN /\ formatter_calls' =
                  Append(formatter_calls, <<question, successful_result.val>>)
             /\ conversation_history' =
                  conversation_history \o
                    <<UserTurn(question), AssistantSqlTurn(answer, successful_sql)>>
             /\ result' = Return(answer)
     ELSE /\ result' = Return(Msg(NoAnswerMessage))
          /\ UNCHANGED <<formatter_calls, conversation_history>>
  /\ pc' = "done"
  /\ UNCHANGED <<asks, question, intent, candidates, i, sql_query, sql_result,
                 error, successful_result, successful_sql, llm_calls, connections, open_connections,
                 cursor_sql, attempts, history_at_call, appVars>>

Next ==
  \/ AskCall
  \/ Route
  \/ GeneralConversation
  \/ Plan
  \/ LoopNext
  \/ Synthesize
  \/ SafetyGate
  \/ Execute
  \/ CheckResult
  \/ Synthesis

\* one agent serving a sequence of questions
Spec == Init /\ [][Next]_vars

(* ------------------------------------------------------------------ *)
(* app.py : init_agent, run in a background thread                     *)
(* ------------------------------------------------------------------ *)

\* the agent object FactoryGPT() returns
AgentObject == [tag |-> "FactoryGPT"]

\* the status the globals stand for, as agent_status() and ask() read them
Status ==
  IF ~agent_initialized THEN "initializing"
  ELSE IF agent = None THEN "error"
  ELSE "ready"

\* threading.Thread(target=init_agent).start(), then the try block is entered
InitAgentStart ==
  /\ init_pc = "not_started"
  /\ init_pc' = "setup_database"
  /\ UNCHANGED <<agent, agent_initialized, agent_error, init_exception, requests,
                 askVars, learnVars, llm>>

\* a step of FactoryGPT.__init__ that raises when its upstream is unreachable
ConstructorStep(here, next, failure) ==
  /\ init_pc = here
  /\ \/ /\ init_pc' = next
        /\ UNCHANGED init_exception
     \/ /\ init_pc' = "except"
        /\ init_exception' = PyStr(failure)
  /\ UNCHANGED <<agent, agent_initialized, agent_error, requests, askVars, learnVars, llm>>

SetupDatabase ==
  ConstructorStep("setup_database", "setup_llm",
                  "Could not connect to SQL Database")

SetupLlm ==
  ConstructorStep("setup_llm", "get_database_schema", "Could not connect to LLM")

GetDatabaseSchema ==
  ConstructorStep("get_database_schema", "learn_machine_intelligence",
                  "Could not discover schema")

(* learn_machine_intelligence, the last step of the constructor *)

\* what no step of the learner changes
LearnFrame ==
  UNCHANGED <<agent, agent_initialized, agent_error, requests, askVars, llm>>

Learning(here) == init_pc = "learn_machine_intelligence" /\ learn_pc = here

\* the scan without its `except Exception`: the exception leaves the constructor
LearnWarnPropagates(site) ==
  /\ learn_errors' = Append(learn_errors, site)
  /\ learn_pc' = "raised"
  /\ init_pc' = "except"
  /\ init_exception' = PyStr(site)

\* except Exception as e: the warning is printed, the scan is over
LearnWarn(site) ==
  /\ learn_errors' = Append(learn_errors, site)
  /\ learn_pc' = "return"
  /\ UNCHANGED <<init_pc, init_exception>>

\* with pyodbc.connect(self.db_connection_string) as conn
LearnConnect ==
  /\ Learning("connect")
  /\ \/ learn_pc' = "tables" /\ UNCHANGED <<init_pc, init_exception, learn_errors>>
     \/ LearnWarn("connect")
  /\ UNCHANGED <<machine_intelligence, relevant_tables, table_index, column,
                 machine_names, names_done, learner_sql>>
  /\ LearnFrame

\* str.startswith
StartsWith(s, prefix) == MatchAt(s, prefix, 1)

\* not table.lower().startswith("sys")
Relevant(table) == ~StartsWith(Lower(table.table_name), <<"s","y","s">>)

\* all_tables = [... cursor.tables(tableType='TABLE')]; relevant_tables = [...]
LearnTables ==
  /\ Learning("tables")
  /\ \/ /\ relevant_tables' = SelectSeq(AllTables, Relevant)
        /\ learn_pc' = "for_table"
        /\ UNCHANGED <<init_pc, init_exception, learn_errors>>
     \/ LearnWarn("tables") /\ UNCHANGED relevant_tables
  /\ UNCHANGED <<machine_intelligence, table_index, column, machine_names,
                 names_done, learner_sql>>
  /\ LearnFrame

\* for table in relevant_tables
LearnForTable ==
  /\ Learning("for_table")
  /\ IF table_index < Len(relevant_tables)
     THEN table_index' = table_index + 1 /\ learn_pc' = "columns"
     ELSE UNCHANGED table_index /\ learn_pc' = "return"
  /\ UNCHANGED <<machine_intelligence, relevant_tables, column, machine_names,
                 names_done, learner_sql, learn_errors, init_pc, init_exception>>
  /\ LearnFrame

\* column_names = [row.column_name for row in cursor.columns(table=table)]
LearnColumns ==
  /\ Learning("columns")
  /\ \/ /\ learn_pc' = "if_machine_name"
        /\ UNCHANGED <<init_pc, init_exception, learn_errors>>
     \/ LearnWarn("columns")
  /\ UNCHANGED <<machine_intelligence, relevant_tables, table_index, column,
                 machine_names, names_done, learner_sql>>
  /\ LearnFrame

\* the table the loop is at
Table == relevant_tables[table_index]

\* if 'MACHINE_NAME' in column_names: self._learn_machines_from_column(...)
LearnIfMachineName ==
  /\ Learning("if_machine_name")
  /\ IF "MACHINE_NAME" \in Table.column_names
     THEN column' = "MACHINE_NAME" /\ learn_pc' = "execute"
     ELSE UNCHANGED column /\ learn_pc' = "if_machine_group"
  /\ UNCHANGED <<machine_intelligence, relevant_tables, table_index,
                 machine_names, names_done, learner_sql, learn_errors, init_pc,
                 init_exception>>
  /\ LearnFrame

\* if 'MACHINE_GROUP' in column_names: self._learn_machines_from_column(...)
LearnIfMachineGroup ==
  /\ Learning("if_machine_group")
  /\ IF "MACHINE_GROUP" \in Table.column_names
     THEN column' = "MACHINE_GROUP" /\ learn_pc' = "execute"
     ELSE UNCHANGED column /\ learn_pc' = "for_table"
  /\ UNCHANGED <<machine_intelligence, relevant_tables, table_index,
                 machine_names, names_done, learner_sql, learn_errors, init_pc,
                 init_exception>>
  /\ LearnFrame

\* where learn_machine_intelligence goes on after _learn_machines_from_column
AfterColumn == IF column = "MACHINE_NAME" THEN "if_machine_group" ELSE "for_table"

\* except Exception as e, in _learn_machines_from_column: this column is skipped
LearnSkip(site) ==
  /\ learn_errors' = Append(learn_errors, site)
  /\ learn_pc' = AfterColumn

\* with conn.cursor() as cursor: cursor.execute(f"SELECT DISTINCT ...");
\* machine_names = [row[0] for row in cursor.fetchall()]
LearnExecute ==
  /\ Learning("execute")
  /\ \/ /\ learner_sql' = Append(learner_sql, LearnStatement(Table.table_name, column))
        /\ \/ /\ machine_names' \in ColumnValues
              /\ names_done' = 0
              /\ learn_pc' = "names"
              /\ UNCHANGED learn_errors
           \/ /\ LearnSkip("execute")
              /\ UNCHANGED <<machine_names, names_done>>
     \/ /\ LearnSkip("cursor")
        /\ UNCHANGED <<learner_sql, machine_names, names_done>>
  /\ UNCHANGED <<machine_intelligence, relevant_tables, table_index, column,
                 init_pc, init_exception>>
  /\ LearnFrame

\* for name in machine_names: one name is skipped, tokenized into the
\* vocabulary, or (not being text) makes re.split raise TypeError
LearnName ==
  /\ Learning("names")
  /\ IF names_done < Len(machine_names)
     THEN LET name == machine_names[names_done + 1] IN
          IF ~Truthy(name)
            THEN /\ names_done' = names_done + 1
                 /\ UNCHANGED <<machine_intelligence, learn_pc, learn_errors>>
          ELSE IF name.tag # "str"
            THEN /\ LearnSkip("name")
                 /\ UNCHANGED <<machine_intelligence, names_done>>
          ELSE /\ machine_intelligence' = LearnOneName(machine_intelligence, name)
               /\ names_done' = names_done + 1
               /\ UNCHANGED <<learn_pc, learn_errors>>
     ELSE /\ learn_pc' = AfterColumn
          /\ UNCHANGED <<machine_intelligence, names_done, learn_errors>>
  /\ UNCHANGED <<relevant_tables, table_index, column, machine_names,
                 learner_sql, init_pc, init_exception>>
  /\ LearnFrame

\* learn_machine_intelligence returns, and with it FactoryGPT.__init__
LearnReturn ==
  /\ Learning("return")
  /\ learn_pc' = "done"
  /\ init_pc' = "assign_agent"
  /\ UNCHANGED <<machine_intelligence, relevant_tables, table_index, column,
                 machine_names, names_done, learner_sql, learn_errors,
                 init_exception>>
  /\ LearnFrame

LearnMachineIntelligence ==
  \/ LearnConnect
  \/ LearnTables
  \/ LearnForTable
  \/ LearnColumns
  \/ LearnIfMachineName
  \/ LearnIfMachineGroup
  \/ LearnExecute
  \/ LearnName
  \/ LearnReturn

\* agent = FactoryGPT() : the constructor has returned, the global is bound
InitAgentAssign ==
  /\ init_pc = "assign_agent"
  /\ agent' = AgentObject
  /\ init_pc' = "set_initialized"
  /\ UNCHANGED <<agent_initialized, agent_error, init_exception, requests, askVars, learnVars, llm>>

\* agent_initialized = True, on the success path
InitAgentSetInitialized ==
  /\ init_pc = "set_initialized"
  /\ agent_initialized' = TRUE
  /\ init_pc' = "finished_ok"
  /\ UNCHANGED <<agent, agent_error, init_exception, requests, askVars, learnVars, llm>>

\* except Exception as e: agent_error = str(e)
InitAgentExceptError ==
  /\ init_pc = "except"
  /\ agent_error' = init_exception
  /\ init_pc' = "except_agent"
  /\ UNCHANGED <<agent, agent_initialized, init_exception, requests, askVars, learnVars, llm>>

\* agent = None
InitAgentExceptAgent ==
  /\ init_pc = "except_agent"
  /\ agent' = None
  /\ init_pc' = "except_initialized"
  /\ UNCHANGED <<agent_initialized, agent_error, init_exception, requests, askVars, learnVars, llm>>

\* the handler with its last assignment left out
InitAgentExceptNotInitialized ==
  /\ init_pc = "except_initialized"
  /\ init_pc' = "finished_error"
  /\ UNCHANGED <<agent, agent_initialized, agent_error, init_exception, requests,
                 askVars, learnVars, llm>>

\* agent_initialized = True  # even if failed
InitAgentExceptInitialized ==
  /\ init_pc = "except_initialized"
  /\ agent_initialized' = TRUE
  /\ init_pc' = "finished_error"
  /\ UNCHANGED <<agent, agent_error, init_exception, requests, askVars, learnVars, llm>>

(* ------------------------------------------------------------------ *)
(* app.py : the request handlers /agent-status and /ask                *)
(* ------------------------------------------------------------------ *)

Idle == [pc |-> "idle"]

At(r, where) == requests[r].pc = where

Goto(r, where) ==
  requests' = [requests EXCEPT ![r] = [@ EXCEPT !.pc = where]]

\* jsonify(...) is returned: the request ends with this response
Respond(r, response) ==
  requests' = [requests EXCEPT ![r] =
                 [pc |-> "responded", route |-> @.route, response |-> response]]

\* a GET /agent-status arrives
AgentStatusBegin(r) ==
  /\ At(r, "idle")
  /\ requests' = [requests EXCEPT ![r] = [pc |-> "status_initialized",
                                          route |-> "agent-status"]]
  /\ UNCHANGED <<agent, agent_initialized, agent_error, init_pc, init_exception,
                 askVars, learnVars, llm>>

\* if not agent_initialized: return {"status": "initializing"}
AgentStatusReadInitialized(r) ==
  /\ At(r, "status_initialized")
  /\ IF ~agent_initialized
     THEN Respond(r, [status |-> "initializing"])
     ELSE Goto(r, "status_agent")
  /\ UNCHANGED <<agent, agent_initialized, agent_error, init_pc, init_exception,
                 askVars, learnVars, llm>>

\* elif agent is None: error with agent_error, else ready
AgentStatusReadAgent(r) ==
  /\ At(r, "status_agent")
  /\ IF agent = None
     THEN Respond(r, [status |-> "error", message |-> agent_error])
     ELSE Respond(r, [status |-> "ready"])
  /\ UNCHANGED <<agent, agent_initialized, agent_error, init_pc, init_exception,
                 askVars, learnVars, llm>>

\* a POST /ask arrives
AskBegin(r) ==
  /\ At(r, "idle")
  /\ requests' = [requests EXCEPT ![r] = [pc |-> "ask_initialized",
                                          route |-> "ask"]]
  /\ UNCHANGED <<agent, agent_initialized, agent_error, init_pc, init_exception,
                 askVars, learnVars, llm>>

\* if not agent_initialized: answer "still initializing"
AskReadInitialized(r) ==
  /\ At(r, "ask_initialized")
  /\ IF ~agent_initialized
     THEN Respond(r, [status |-> "initializing"])
     ELSE Goto(r, "ask_agent")
  /\ UNCHANGED <<agent, agent_initialized, agent_error, init_pc, init_exception,
                 askVars, learnVars, llm>>

\* the handler with the `agent is None` test left out
AskReadAgentUnchecked(r) ==
  /\ At(r, "ask_agent")
  /\ Goto(r, "ask_parse")
  /\ UNCHANGED <<agent, agent_initialized, agent_error, init_pc, init_exception,
                 askVars, learnVars, llm>>

\* if agent is None: answer "failed to initialize" with agent_error
AskReadAgent(r) ==
  /\ At(r, "ask_agent")
  /\ IF agent = None
     THEN Respond(r, [status |-> "error", message |-> agent_error])
     ELSE Goto(r, "ask_parse")
  /\ UNCHANGED <<agent, agent_initialized, agent_error, init_pc, init_exception,
                 askVars, learnVars, llm>>

\* request.get_json(), data.get("question", "").strip(), `if not question`
AskParse(r) ==
  /\ At(r, "ask_parse")
  /\ \/ Goto(r, "ask_dispatch")
     \/ Respond(r, [status |-> "error", message |-> Msg("Please enter a valid question.")])
     \/ \* no JSON body: data is None and data.get raises, caught at the end
        Respond(r, [status |-> "error", message |-> Msg("Internal error")])
  /\ UNCHANGED <<agent, agent_initialized, agent_error, init_pc, init_exception,
                 askVars, learnVars, llm>>

\* result = agent.ask(question), inside `try ... except Exception`
AskDispatch(r) ==
  /\ At(r, "ask_dispatch")
  /\ IF agent = None
     THEN Respond(r, [status |-> "error", message |-> Msg("Internal error")])
     ELSE \/ Respond(r, [status |-> "success"])
          \/ Respond(r, [status |-> "error", message |-> Msg("Internal error")])
  /\ UNCHANGED <<agent, agent_initialized, agent_error, init_pc, init_exception,
                 askVars, learnVars, llm>>

\* the response has been sent; the worker takes the next request
RequestEnd(r) ==
  /\ At(r, "responded")
  /\ requests' = [requests EXCEPT ![r] = Idle]
  /\ UNCHANGED <<agent, agent_initialized, agent_error, init_pc, init_exception,
                 askVars, learnVars, llm>>

InitAgent ==
  \/ InitAgentStart
  \/ SetupDatabase
  \/ SetupLlm
  \/ GetDatabaseSchema
  \/ LearnMachineIntelligence
  \/ InitAgentAssign
  \/ InitAgentSetInitialized
  \/ InitAgentExceptError
  \/ InitAgentExceptAgent
  \/ InitAgentExceptInitialized

Handler(r) ==
  \/ AgentStatusBegin(r)
  \/ AgentStatusReadInitialized(r)
  \/ AgentStatusReadAgent(r)
  \/ AskBegin(r)
  \/ AskReadInitialized(r)
  \/ AskReadAgent(r)
  \/ AskParse(r)
  \/ AskDispatch(r)
  \/ RequestEnd(r)

NextApp ==
  \/ InitAgent
  \/ \E r \in 1..MaxRequests : Handler(r)

\* the web process: the initialisation thread beside the request handlers
SpecApp == Init /\ [][NextApp]_vars

(* ------------------------------------------------------------------ *)
(* Stage 2 on its own, on a candidate list longer than the planning    *)
(* prompt asks for                                                     *)
(* ------------------------------------------------------------------ *)

\* the planning call of the first ask() has returned a long list
InitLong ==
  /\ pc = "loop"
  /\ asks = 1
  /\ conversation_history = <<>>
  /\ history_at_call = <<>>
  /\ question = QDowntime
  /\ intent = "data"
  /\ candidates \in {PyList(c) : c \in LongCandidateLists}
  /\ i = 0
  /\ sql_query = <<>>
  /\ sql_result = None
  /\ error = None
  /\ successful_result = None
  /\ successful_sql = None
  /\ result = None
  /\ llm_calls = 1
  /\ connections = 0
  /\ open_connections = 0
  /\ cursor_sql = None
  /\ attempts = <<>>
  /\ formatter_calls = <<>>
  /\ InitApp

NextLong ==
  \/ LoopNext
  \/ Synthesize
  \/ SafetyGate
  \/ Execute
  \/ CheckResult
  \/ Synthesis

\* the candidate loop and Stage 3 on every list of LongCandidateLists
SpecLong == InitLong /\ [][NextLong]_vars

(* ------------------------------------------------------------------ *)
(* ask() on an agent whose model is a deterministic stub               *)
(* ------------------------------------------------------------------ *)

\* the history is empty, as it is on a new agent and after calls that did
\* not answer, and two calls remain to be made
InitStub ==
  /\ pc = "idle"
  /\ asks = MaxAsks - 2
  /\ conversation_history = <<>>
  /\ question = <<>>
  /\ InitLocals
  /\ InitGlobals
  /\ InitLearn
  /\ llm = StubModel

SpecStub == InitStub /\ [][Next]_vars

(* ------------------------------------------------------------------ *)
(* _execute_sql and _understand_intent called on their own, on text    *)
(* put together from fragments in every order                          *)
(* ------------------------------------------------------------------ *)

GateFragments ==
  { <<"d","r">>, <<"O","P">>, <<"D","r","o","p"," ">>,
    <<"e","x">>, <<"e","C">>,
    <<"u","p">>, <<"D","A","T","E">>,
    <<"G","r","a","n","t">>, <<"g","r","a","n">>, <<"T",";">>,
    <<"a","l">>, <<"t","e","R">>,
    <<"i","n","s">>, <<"E","R","T">>,
    <<"T","R","U","N","C">>, <<"a","t","e">>,
    <<"d","e">>, <<"l","e","t","e">>,
    <<"S","E","L","E","C","T"," ">>, <<"x">>, <<" ">> }

GateQueries == GateFragments \cup {a \o b : a, b \in GateFragments}

RouterFragments ==
  { <<"h">>, <<"I">>, <<"H","E">>, <<"y">>, <<"h","e","l">>, <<"L","O">>,
    <<"G","o","o","d"," ">>, <<"m","o","r","n","i","n","g">>,
    <<"E","V","E","N","I","N","G">>, <<"A","f","t","e","r","n","o","o","n">>,
    <<"w","h","o"," ","a","r","e"," ">>, <<"Y","O","U">>,
    <<"W","h","a","t","'","s"," ">>, <<"u","p">>,
    <<"H","o","w"," ","a","r","e"," ">>, <<"h","o","w"," ","d","o"," ">>,
    <<"y","o","u"," ","F","e","e","l">>,
    <<"T","e","l","l"," ","m","e"," ","a","b","o","u","t"," ">>,
    <<"I","n","t","r","o","d","u","c","e"," ">>,
    <<"y","o","u","r","S","E","L","F">>,
    <<"w","h","a","t"," ","c","a","n"," ">>, <<"y","o","u"," ","D","O">>,
    <<"A","r","e"," ","y","o","u"," ">>, <<"G","P","T">>,
    <<"d","o","w","n","t","i","m","e">>, <<"x">>, <<" ">>,
    <<"w","h","i","c","h"," ">>, <<"m","a","c","h","i","n","e">> }

RouterQuestions == RouterFragments \cup {a \o b : a, b \in RouterFragments}

\* _execute_sql(sql) is called with some query text
InitGate ==
  /\ pc = "execute_sql"
  /\ sql_query \in GateQueries
  /\ asks = 0
  /\ conversation_history = <<>>
  /\ question = <<>>
  /\ intent = "unset"
  /\ candidates = None
  /\ i = 0
  /\ sql_result = None
  /\ error = None
  /\ successful_result = None
  /\ successful_sql = None
  /\ result = None
  /\ llm_calls = 0
  /\ connections = 0
  /\ open_connections = 0
  /\ cursor_sql = None
  /\ attempts = <<>>
  /\ formatter_calls = <<>>
  /\ history_at_call = <<>>
  /\ InitApp

NextGate ==
  \/ SafetyGate
  \/ Execute

\* the Safety Gate and the Executor on every query of GateQueries
SpecGate == InitGate /\ [][NextGate]_vars

\* _understand_intent(question) is called with some question text
InitIntent ==
  /\ pc = "intent"
  /\ question \in RouterQuestions
  /\ asks = 0
  /\ conversation_history = <<>>
  /\ history_at_call = <<>>
  /\ InitLocals
  /\ InitApp

NextIntent == Route

\* the Intent Router on every question of RouterQuestions
SpecIntent == InitIntent /\ [][NextIntent]_vars

(* ------------------------------------------------------------------ *)
(* Stage 3 on its own: the formatter on questions put together from    *)
(* its keywords and on result sets of every shape                      *)
(* ------------------------------------------------------------------ *)

FormatFragments ==
  { <<"p","r","o","d","u","c","t","i","o","n"," ">>,
    <<"C","o","u","n","t"," ">>,
    <<"D","o","w","n","T","i","m","e"," ">>,
    <<"a","v","e","r","a","g","e"," ">>, <<"A","V","G"," ">>,
    <<"t","o","t","a","l"," ">>, <<"s","u","m"," ">>,
    <<"c","y","c","l","e","t","i","m","e"," ">>,
    <<"C","y","c","l","e"," ","t","i","m","e"," ">>,
    <<"h","i","g","h","e","s","t"," ">>,
    <<"s","p","e","e","d"," ">> }

\* questions that name a third keyword beside "downtime" and an aggregate
FormatTriples ==
  { a \o <<"D","o","w","n","T","i","m","e"," ">> \o c :
      a \in { <<"p","r","o","d","u","c","t","i","o","n"," ">>,
              <<"C","o","u","n","t"," ">>, <<"t","o","t","a","l"," ">>,
              <<"h","i","g","h","e","s","t"," ">> },
      c \in { <<"a","v","e","r","a","g","e"," ">>, <<"A","V","G"," ">>,
              <<"s","u","m"," ">> } }

FormatQuestions ==
  FormatFragments \cup {a \o b : a, b \in FormatFragments} \cup FormatTriples

\* the single values a one-row result carries
FormatValues ==
  { PyDec(t) : t \in {0, 4, 5, 15, 25, 599, 600, 601, 630, 900, 35999, 36000,
                       36001, 37800, 54000, 123445, 123450, 123455, 12345678} }
  \cup {PyNum(5400), PyStr(<<"1","2","3","4","5">>), PyStr(<<"n","/","a">>), None}

M1 == PyStr(<<"M","1">>)

\* one row of several columns
FormatPairRows ==
  { << Cell("MACHINE_NAME", M1), Cell("v", PyDec(54000)) >>,
    << Cell("v", PyDec(601)), Cell("MACHINE_NAME", M1) >>,
    << Cell("MACHINE_GROUP", M1), Cell("v", PyStr(<<"n","/","a">>)) >>,
    << Cell("MACHINE_NAME", PyStr(<<>>)), Cell("MACHINE_GROUP", M1),
       Cell("v", PyDec(123455)) >>,
    << Cell("MACHINE_NAME", M1), Cell("MACHINE_GROUP", M1) >>,
    << Cell("MACHINE_NAME", None), Cell("v", PyDec(5)) >>,
    << Cell("lo", PyDec(5)), Cell("hi", PyDec(900)) >> }

\* row k of a listing
ListingRow(k) ==
  << Cell("MACHINE_NAME", PyStr(<<"M", DigitChar(k)>>)), Cell("v", PyNum(k)) >>

\* result sets of two or more rows, in both orders
FormatListings ==
  { [k \in 1..n |-> ListingRow(k)] : n \in 2..MaxRows }
  \cup { [k \in 1..n |-> ListingRow(n + 1 - k)] : n \in 2..MaxRows }

FormatResults ==
  { << << Cell("c", v) >> >> : v \in FormatValues }
  \cup { <<row>> : row \in FormatPairRows }
  \cup FormatListings

\* ask() has reached Stage 3 with some question and some successful result
InitFormat ==
  /\ pc = "synthesis"
  /\ question \in FormatQuestions
  /\ successful_result \in {PyList(r) : r \in FormatResults}
  /\ successful_sql = PyStr(<<"S","E","L","E","C","T"," ","1">>)
  /\ asks = 1
  /\ conversation_history = <<>>
  /\ intent = "data"
  /\ candidates = PyList(<<GoodCandidate>>)
  /\ i = 1
  /\ sql_query = <<"S","E","L","E","C","T"," ","1">>
  /\ sql_result = successful_result
  /\ error = None
  /\ result = None
  /\ llm_calls = 2
  /\ connections = 1
  /\ open_connections = 0
  /\ cursor_sql = successful_sql
  /\ attempts = <<RowsOutcome(successful_result.val)>>
  /\ formatter_calls = <<>>
  /\ history_at_call = <<>>
  /\ InitApp

NextFormat == Synthesis

\* the Response Formatter on every question of FormatQuestions and every
\* result set of FormatResults
SpecFormat == InitFormat /\ [][NextFormat]_vars

(* ------------------------------------------------------------------ *)
(* _learn_machines_from_column on its own: the name loop on lists of   *)
(* names put together from fragments                                   *)
(* ------------------------------------------------------------------ *)

NameFragments ==
  { <<"M","a","c">>, <<"L","i","n","e">>, <<"2">>, <<"A">>, <<"m","a","c">>, <<"_">>, <<"l","i","n","e">>, <<"2","b">>, <<"C","N","C">>, <<"x","1">>, <<" ">>, <<"-">> }

\* the values of an identity column
Names ==
  {PyStr(a) : a \in NameFragments}
  \cup {PyStr(a \o b) : a, b \in NameFragments}
  \cup {MacLine2A, mac_line_2b}

NameLists ==
  { <<n>> : n \in Names }
  \cup { <<a, b>> : a, b \in {MacLine2A, mac_line_2b, PyStr(<<"L","i","n","e"," ","2">>),
                             PyStr(<<>>), PyNum(7)} }

\* the query of Machines.MACHINE_NAME has returned some list of names
InitNames ==
  /\ learn_pc = "names"
  /\ machine_names \in NameLists
  /\ names_done = 0
  /\ machine_intelligence = EmptyVocabulary
  /\ relevant_tables = SelectSeq(AllTables, Relevant)
  /\ table_index = 1
  /\ column = "MACHINE_NAME"
  /\ learner_sql = <<LearnStatement(relevant_tables[1].table_name, column)>>
  /\ learn_errors = <<>>
  /\ agent = None
  /\ agent_initialized = FALSE
  /\ agent_error = None
  /\ init_pc = "learn_machine_intelligence"
  /\ init_exception = None
  /\ requests = [r \in 1..MaxRequests |-> [pc |-> "idle"]]
  /\ llm = FreeModel
  /\ pc = "idle"
  /\ asks = 0
  /\ conversation_history = <<>>
  /\ question = <<>>
  /\ InitLocals

NextNames == LearnName

\* the tokenizer on every list of NameLists
SpecNames == InitNames /\ [][NextNames]_vars

(* ------------------------------------------------------------------ *)
(* What "contains, whatever the letter case" means, letter by letter   *)
(* ------------------------------------------------------------------ *)

\* a and b are the same character, or the two cases of one letter
SameLetter(a, b) ==
  \/ a = b
  \/ \E k \in DOMAIN LowerLetters :
        {a, b} = {LowerLetters[k], UpperLetters[k]}

\* word occurs in s at some position, each character matched up to case
OccursIgnoringCase(s, word) ==
  \E p \in 1..Len(s) :
    /\ p + Len(word) - 1 <= Len(s)
    /\ \A k \in 1..Len(word) : SameLetter(s[p + k - 1], word[k])

RestrictedWords ==
  { <<"D","E","L","E","T","E">>, <<"D","R","O","P">>,
    <<"U","P","D","A","T","E">>, <<"I","N","S","E","R","T">>,
    <<"T","R","U","N","C","A","T","E">>, <<"A","L","T","E","R">>,
    <<"E","X","E","C">>, <<"G","R","A","N","T">> }

HasRestrictedWord(s) == \E w \in RestrictedWords : OccursIgnoringCase(s, w)

HasTriggerPhrase(s) ==
  \E k \in DOMAIN general_indicators : OccursIgnoringCase(s, general_indicators[k])

(* ------------------------------------------------------------------ *)
(* Properties                                                          *)
(* ------------------------------------------------------------------ *)

\* C1: in every run of ask(), a statement handed to the database cursor holds
\* none of the eight restricted words in any letter case, and the step that
\* finds a restricted word in the query ends _execute_sql with the
\* restricted-keyword error, opening no connection and executing nothing.
C1_OnlyGatedQueriesReachCursor ==
  /\ [](cursor_sql # None => ~HasRestrictedWord(cursor_sql.val))
  /\ [][(pc = "execute_sql" /\ HasRestrictedWord(sql_query))
          => /\ pc' = "executed"
             /\ error' = RestrictedError
             /\ sql_result' = None
             /\ connections' = connections
             /\ cursor_sql' = cursor_sql]_vars

\* C1 witness: one ask() in which a candidate's query was rejected by the gate
\* and another candidate's query was handed to the cursor.
C1_Witness ==
  /\ pc = "done"
  /\ \E k \in DOMAIN attempts : attempts[k].outcome = "gate"
  /\ cursor_sql # None
  /\ connections > 0

\* C2: the gate rejects a query (no rows, the restricted-keyword error) exactly
\* when the query holds one of the eight restricted words in some letter case,
\* and passes every other query on to the connection.
C2_GateRejectsExactlyRestricted ==
  [][pc = "execute_sql"
       => IF HasRestrictedWord(sql_query)
          THEN pc' = "executed" /\ error' = RestrictedError /\ sql_result' = None
          ELSE pc' = "connect" /\ error' = None]_vars

\* C2 witness: a query spelling a restricted word in mixed case has been
\* rejected, with nothing executed.
C2_Witness ==
  /\ pc = "executed"
  /\ error = RestrictedError
  /\ sql_result = None
  /\ cursor_sql = None
  /\ ~GateBlocksNoUpper(sql_query)

\* C8: the router answers "chat" exactly when the question holds a trigger
\* phrase in some letter case and "data" otherwise, and the step changes
\* nothing but the router's own result.
C8_RouterMatchesTriggerPhrases ==
  [][pc = "intent"
       => /\ intent' = IF HasTriggerPhrase(question) THEN "chat" ELSE "data"
          /\ UNCHANGED <<question, conversation_history, candidates, i,
                         sql_query, sql_result, error, successful_result,
                         successful_sql, result, llm_calls, connections, open_connections,
                         cursor_sql, attempts, formatter_calls, appVars>>]_vars

\* C8 witness: a question that holds a trigger phrase only in upper or mixed
\* case has been routed to the conversational branch.
C8_Witness ==
  /\ pc = "chat"
  /\ intent = "chat"
  /\ UnderstandIntentNoLower(question) = "data"

\* the candidates the loop has finished with that were actually attempted
Attempted == {k \in DOMAIN attempts : attempts[k].outcome # "skipped"}

\* the candidates whose query passed the gate, ran and returned rows
Succeeded == {k \in DOMAIN attempts : attempts[k].outcome = "rows"}

\* ask() has returned a value on the data branch after running the loop
LoopReturned ==
  /\ pc = "done"
  /\ candidates # None
  /\ result.kind = "return"

\* C3: candidates are taken one at a time in list order; only the last
\* candidate taken can have succeeded, and the result kept is that candidate's;
\* a candidate that was rejected, failed or returned no rows is followed by the
\* next one until the list ends; one synthesis call is made per attempted
\* candidate and none after the first success.
C3_FirstSuccessInRankOrder ==
  /\ [](candidates # None =>
          /\ Len(attempts) \in {i - 1, i}
          /\ \A k \in Succeeded : k = Len(attempts)
          /\ successful_result # None =>
               /\ Len(attempts) = i
               /\ attempts[i] = RowsOutcome(successful_result.val)
          /\ pc \in {"loop", "synthesis", "done"} =>
               /\ llm_calls = 1 + Cardinality(Attempted)
               /\ connections <= Cardinality(Attempted)
          /\ (pc = "synthesis" \/ LoopReturned) =>
               /\ (successful_result # None) <=> (Succeeded # {})
               /\ successful_result = None =>
                    Len(attempts) = Len(Elements(candidates)))
  /\ [][pc \notin {"idle", "done"} => i' \in {i, i + 1}]_vars

\* C3 witness: two candidates failed in turn (one at the gate, one with no
\* rows) and the third one's rows were kept.
C3_Witness ==
  /\ pc = "synthesis"
  /\ i = 3
  /\ attempts[1].outcome = "gate"
  /\ attempts[2].outcome = "empty"
  /\ attempts[3].outcome = "rows"
  /\ successful_result # None

\* C4: when ask() returns after every candidate failed or was skipped, or the
\* list was empty, the value returned is the fixed no-answer message and the
\* formatter has not been called.
C4_ExhaustionGivesFixedMessage ==
  (LoopReturned /\ Succeeded = {}) =>
     /\ result.value = Msg(NoAnswerMessage)
     /\ formatter_calls = <<>>

\* C4 witness: three candidates failed in the three ways and ask() returned.
C4_Witness ==
  /\ LoopReturned
  /\ Len(attempts) = 3
  /\ {attempts[k].outcome : k \in DOMAIN attempts} = {"gate", "error", "empty"}
  /\ result.value = Msg(NoAnswerMessage)

\* the planning output is a list of objects
WellFormedCandidates(c) ==
  /\ c.tag = "list"
  /\ \A k \in DOMAIN c.val : c.val[k].tag = "dict"

\* C5 (as claimed): when the planning output is not a well-formed candidate
\* list, ask() returns the rephrase message after one model call, with no
\* synthesis, no execution and the conversation history as it was.
C5_MalformedPlanGivesRephraseMessage ==
  (pc = "done" /\ intent = "data"
     /\ (candidates = None \/ ~WellFormedCandidates(candidates)))
  => /\ result = Return(Msg(PlanFailureMessage))
     /\ llm_calls = 1
     /\ connections = 0
     /\ cursor_sql = None
     /\ conversation_history = history_at_call

\* C6 (as claimed): ask() always ends by returning a value, never by raising.
C6_AskAlwaysReturns ==
  pc = "done" => result.kind = "return"

\* C7: when a candidate succeeded, the value ask() returns is the formatter's
\* output for the question and the rows of the first candidate that succeeded,
\* and the formatter was called once, with exactly those arguments.
C7_AnswerFromFirstSuccessOnly ==
  (pc = "done" /\ Succeeded # {}) =>
     LET first == Min(Succeeded) IN
       /\ result = Return(FormatConversationalResponse(question, attempts[first].rows))
       /\ formatter_calls = << <<question, attempts[first].rows>> >>

\* C7 witness: candidate 1 rejected by the gate, candidate 2 with zero rows,
\* candidate 3 successful, and ask() has returned.
C7_Witness ==
  /\ pc = "done"
  /\ Len(attempts) = 3
  /\ attempts[1].outcome = "gate"
  /\ attempts[2].outcome = "empty"
  /\ attempts[3].outcome = "rows"
  /\ result.kind = "return"

\* FactoryGPT() has returned an agent to init_agent
ConstructorReturned == init_pc \in {"set_initialized", "finished_ok"}

StatusValues == {"initializing", "ready", "error"}

\* C9: under every interleaving of init_agent with the request handlers, the
\* readiness probe /agent-status reports one of initializing, ready, error;
\* it reports ready only once the constructor has returned; /ask reaches the
\* call agent.ask(question) only while the status is ready, after a
\* successful initialisation.
C9_DispatchOnlyWhenReady ==
  /\ Status \in StatusValues
  /\ \A r \in 1..MaxRequests :
       /\ (At(r, "responded") /\ requests[r].route = "agent-status") =>
            /\ requests[r].response.status \in StatusValues
            /\ requests[r].response.status = "ready" => ConstructorReturned
            /\ requests[r].response.status = "error" => init_pc = "finished_error"
       /\ At(r, "ask_dispatch") =>
            /\ Status = "ready"
            /\ init_pc = "finished_ok"
       /\ (At(r, "responded") /\ requests[r].route = "ask"
             /\ requests[r].response.status = "success") => init_pc = "finished_ok"

\* C9 witness: one handler is about to call agent.ask while another has just
\* reported ready.
C9_Witness ==
  \E r1, r2 \in 1..MaxRequests :
    /\ At(r1, "ask_dispatch")
    /\ At(r2, "responded")
    /\ requests[r2].route = "agent-status"
    /\ requests[r2].response.status = "ready"

\* C10: a failure of the constructor is caught in init_agent: once init_agent
\* has ended on its except path the status is error and agent_error holds the
\* failure's text; from any state with status error the next state has status
\* error too, and no step restarts the initialisation.
C10_StartupFailureIsPermanent ==
  /\ [](init_pc = "finished_error" =>
          /\ Status = "error"
          /\ agent_error # None
          /\ agent_error = init_exception)
  /\ [](init_exception # None =>
          init_pc \in {"except", "except_agent", "except_initialized",
                       "finished_error"})
  /\ [][Status = "error" => (Status' = "error" /\ init_pc' = init_pc)]_vars

\* C10 witness: the language model was unreachable at startup, and a later
\* /agent-status request has reported error with that detail.
C10_Witness ==
  /\ init_pc = "finished_error"
  /\ \E r \in 1..MaxRequests :
       /\ At(r, "responded")
       /\ requests[r].route = "agent-status"
       /\ requests[r].response.status = "error"
       /\ requests[r].response.message = PyStr("Could not connect to LLM")

(* ------------------------------------------------------------------ *)
(* The Response Formatter                                              *)
(* ------------------------------------------------------------------ *)

\* ask() has returned an answer made by the formatter
Formatted == pc = "done" /\ formatter_calls # <<>> /\ result.kind = "return"

FormattedQuestion == formatter_calls[Len(formatter_calls)][1]

FormattedRows == formatter_calls[Len(formatter_calls)][2]

\* the rows are one row of one column, and this is its value
OneValue == Len(FormattedRows) = 1 /\ Len(FormattedRows[1]) = 1

TheValue == FormattedRows[1][1][2]

Numeric(v) == v.tag \in {"num", "dec"}

ScalarPhrases ==
  { "The result is: {value}", "The result is {value:,.2f}",
    "The total production count is {value:,.0f} units",
    "The average downtime is {duration}", "The total downtime is {duration}",
    "The most recent downtime is {duration}",
    "The average cycle time is {value:,.2f} seconds",
    "The most recent cycle time is {value:,.2f} seconds" }

PairPhrases ==
  { "Found data for {machine_name}: {value}",
    "The machine with the {operation} downtime is {machine_name} with {duration}",
    "The machine with the {operation} cycle time is {machine_name} with {value:,.2f} seconds",
    "The machine with the {operation} production is {machine_name} with {value:,.0f} units" }

ListingPhrase == "Found {len(result)} results. Here are the top 5: {rows}"

\* the number a grouped text of digits stands for
Ungrouped(text) == DigitsValue(SelectSeq(text, LAMBDA c : c # ","))

\* text is digits with a comma before every group of three from the right
WellGrouped(text) ==
  /\ text # <<>>
  /\ text[1] # ","
  /\ \A p \in DOMAIN text :
        IF (Len(text) - p + 1) % 4 = 0 THEN text[p] = "," ELSE text[p] \in Digits

\* text shows an integer nearest to tenths/10, with thousands separators
ShowsRounded(text, tenths) ==
  /\ WellGrouped(text)
  /\ 10 * Ungrouped(text) - tenths \in -5..5

\* C12: the formatter's answer for a non-empty result has one of three shapes
\* fixed by the row and column counts alone: a scalar phrase for one row of one
\* column, an entity-plus-metric phrase for one row of several columns, a
\* numbered listing for several rows.
C12_ThreeShapesByCounts ==
  Formatted =>
    /\ OneValue => result.value.template \in ScalarPhrases
    /\ (Len(FormattedRows) = 1 /\ Len(FormattedRows[1]) > 1)
          => result.value.template \in PairPhrases
    /\ Len(FormattedRows) > 1 => result.value.template = ListingPhrase

\* C13: for a result of n > 1 rows the answer reports the count n and lists
\* exactly the first min(n, 5) rows, numbered from 1 in their original order.
C13_ListingShowsCountAndFirstFive ==
  (Formatted /\ Len(FormattedRows) > 1) =>
    LET n == Len(FormattedRows)
        listed == result.value.args[2]
    IN /\ result.value.template = ListingPhrase
       /\ result.value.args[1] = n
       /\ Len(listed) = (IF n < 5 THEN n ELSE 5)
       /\ \A k \in DOMAIN listed : listed[k] = <<k, FormattedRows[k]>>

C13_Witness ==
  /\ Formatted
  /\ Len(FormattedRows) = 8
  /\ result.value.args[1] = 8
  /\ Len(result.value.args[2]) = 5
  /\ result.value.args[2][5] = <<5, FormattedRows[5]>>

\* C14 as stated: whatever else the question contains, a question containing
\* "downtime" and "average" with a one-row one-column numeric result gets the
\* average-downtime phrase.
C14_AverageDowntimeWhateverElse ==
  ( /\ Formatted /\ OneValue /\ Numeric(TheValue)
    /\ OccursIgnoringCase(FormattedQuestion, W_downtime)
    /\ OccursIgnoringCase(FormattedQuestion, W_average) )
  => result.value.template = "The average downtime is {duration}"

\* C14: a question containing "downtime" and "average" and neither
\* "production" nor "count", with a one-row one-column numeric result, gets the
\* average-downtime phrase; the value 5400 is shown as "5,400" seconds with the
\* equivalent "1.5" hours.
C14_AverageDowntimePhrase ==
  ( /\ Formatted /\ OneValue /\ Numeric(TheValue)
    /\ OccursIgnoringCase(FormattedQuestion, W_downtime)
    /\ OccursIgnoringCase(FormattedQuestion, W_average)
    /\ ~OccursIgnoringCase(FormattedQuestion, W_production)
    /\ ~OccursIgnoringCase(FormattedQuestion, W_count) )
  => /\ result.value.template = "The average downtime is {duration}"
     /\ TheValue \in {PyNum(5400), PyDec(54000)} =>
          /\ result.value.args[1].seconds = <<"5",",","4","0","0">>
          /\ result.value.args[1].equivalent = "hours"
          /\ result.value.args[1].amount = {<<"1",".","5">>}

C14_Witness ==
  /\ Formatted /\ OneValue
  /\ TheValue = PyNum(5400)
  /\ OccursIgnoringCase(FormattedQuestion, W_downtime)
  /\ OccursIgnoringCase(FormattedQuestion, W_average)
  /\ OccursIgnoringCase(FormattedQuestion, W_total)
  /\ result.value.template = "The average downtime is {duration}"
  /\ result.value.args[1].seconds = <<"5",",","4","0","0">>
  /\ result.value.args[1].amount = {<<"1",".","5">>}

\* C15: a question containing "production", whatever other keywords it has,
\* with a one-row one-column numeric result gets the count phrase: the value
\* rounded to an integer, shown with thousands separators (12345.0 is shown
\* as "12,345").
C15_ProductionCountPhrase ==
  ( /\ Formatted /\ OneValue /\ Numeric(TheValue)
    /\ OccursIgnoringCase(FormattedQuestion, W_production) )
  => /\ result.value.template = "The total production count is {value:,.0f} units"
     /\ ShowsRounded(result.value.args[1], Float(TheValue))
     /\ TheValue = PyDec(123450) =>
          result.value.args[1] = <<"1","2",",","3","4","5">>

C15_Witness ==
  /\ Formatted /\ OneValue
  /\ TheValue = PyDec(123450)
  /\ OccursIgnoringCase(FormattedQuestion, W_production)
  /\ OccursIgnoringCase(FormattedQuestion, W_downtime)
  /\ result.value.template = "The total production count is {value:,.0f} units"
  /\ result.value.args[1] = <<"1","2",",","3","4","5">>

\* the answer shows a duration made from the one numeric value of the result
DurationShown ==
  /\ Formatted /\ OneValue /\ Numeric(TheValue)
  /\ result.value.template \in
       { "The average downtime is {duration}", "The total downtime is {duration}",
         "The most recent downtime is {duration}" }

\* C16: a duration of s seconds is shown as the seconds and one equivalent
\* chosen by threshold: hours when s > 3600, minutes when 60 < s <= 3600, none
\* when s <= 60; 3600 and 60 themselves fall in the lower band, and no value
\* gets both equivalents.
C16_DurationBands ==
  DurationShown =>
    LET s == Float(TheValue)
        d == result.value.args[1]
    IN /\ ShowsRounded(d.seconds, s)
       /\ d.equivalent = (IF s > 36000 THEN "hours"
                          ELSE IF s > 600 THEN "minutes" ELSE "none")
       /\ (d.equivalent = "none") <=> (d.amount = {})

C16_Witness ==
  /\ DurationShown
  /\ TheValue = PyDec(36000)
  /\ result.value.args[1].equivalent = "minutes"
  /\ result.value.args[1].seconds = <<"3",",","6","0","0">>
  /\ result.value.args[1].amount = {<<"6","0",".","0">>}

(* ------------------------------------------------------------------ *)
(* The Vocabulary Learner                                              *)
(* ------------------------------------------------------------------ *)

\* the scan of the learner met an exception somewhere
LearnerFailed == learn_errors # <<>>

ExceptionPath == {"except", "except_agent", "except_initialized", "finished_error"}

\* C11 as stated: after a failure anywhere in the learner's scan the
\* constructor completes, the status is ready, and the vocabulary in use is the
\* empty mapping.
C11_LearnerFailureGivesEmptyVocabulary ==
  (LearnerFailed /\ init_pc = "finished_ok") =>
     /\ Status = "ready"
     /\ machine_intelligence = EmptyVocabulary

\* C11: a failure anywhere in the learner's scan never takes the constructor
\* to its exception path: construction completes and the status becomes ready.
\* The vocabulary in use is what the scan had learned by then: the empty
\* mapping when connecting or listing tables failed, otherwise the tokens of
\* the names read before the failure.
C11_LearnerFailureNeverFailsStartup ==
  LearnerFailed =>
     /\ init_pc \notin ExceptionPath
     /\ init_exception = None
     /\ agent_error = None
     /\ init_pc = "finished_ok" => (Status = "ready" /\ agent = AgentObject)
     /\ learn_errors[1] \in {"connect", "tables"} =>
          machine_intelligence = EmptyVocabulary
     /\ learner_sql = <<>> => machine_intelligence = EmptyVocabulary

C11_Witness ==
  /\ LearnerFailed
  /\ init_pc = "finished_ok"
  /\ Status = "ready"
  /\ machine_intelligence # EmptyVocabulary
  /\ \E r \in 1..MaxRequests :
        /\ requests[r].pc = "responded"
        /\ requests[r].route = "ask"
        /\ requests[r].response.status = "success"

T_mac == <<"m","a","c">>

T_line == <<"l","i","n","e">>

\* the name loop has gone through the two names of the example
BothConventionsLearned ==
  /\ machine_names = <<MacLine2A, mac_line_2b>>
  /\ names_done = 2

\* C17 as stated: from "MacLine2A" and "mac_line_2b" the learner derives the
\* token "mac", and also "line", "2" and "a"/"b", each mapped to a set holding
\* the original value.
C17_TokensOfBothConventions ==
  BothConventionsLearned =>
    /\ {T_mac, T_line, <<"2">>, <<"a">>, <<"b">>} \subseteq DOMAIN machine_intelligence
    /\ machine_intelligence[T_mac] = {MacLine2A, mac_line_2b}
    /\ machine_intelligence[T_line] = {MacLine2A, mac_line_2b}
    /\ MacLine2A \in machine_intelligence[<<"2">>]
    /\ MacLine2A \in machine_intelligence[<<"a">>]
    /\ mac_line_2b \in machine_intelligence[<<"b">>]

\* C17: from "MacLine2A" and "mac_line_2b" the learner derives the tokens "mac"
\* and "line", each mapped to both values, and "macline2a" mapped to the first;
\* "2", "a", "b" and "2b", being no longer than two characters, are not kept.
C17_TokensLongerThanTwo ==
  BothConventionsLearned =>
    /\ DOMAIN machine_intelligence = {T_mac, T_line, <<"m","a","c","l","i","n","e","2","a">>}
    /\ machine_intelligence[T_mac] = {MacLine2A, mac_line_2b}
    /\ machine_intelligence[T_line] = {MacLine2A, mac_line_2b}
    /\ machine_intelligence[<<"m","a","c","l","i","n","e","2","a">>] = {MacLine2A}

C17_Witness ==
  /\ BothConventionsLearned
  /\ learn_pc = "if_machine_group"
  /\ T_mac \in DOMAIN machine_intelligence
  /\ <<"2">> \notin DOMAIN machine_intelligence
  /\ machine_intelligence[T_line] = {MacLine2A, mac_line_2b}

\* C19: every statement executed against the database, the learner's start-up
\* queries included, has passed the Safety Gate's keyword scan: none holds a
\* restricted word.
C19_EveryStatementPassedTheGate ==
  /\ cursor_sql # None => ~HasRestrictedWord(cursor_sql.val)
  /\ \A k \in DOMAIN learner_sql : ~HasRestrictedWord(learner_sql[k])

(* ------------------------------------------------------------------ *)
(* The bound on the work done for one question                         *)
(* ------------------------------------------------------------------ *)

\* C20: whatever list the planning model returns, one ask() call takes at most
\* 3 candidates: at most 3 query-synthesis calls beside the planning call and
\* at most 3 executions.
C20_AtMostThreeAttempts ==
  /\ i <= 3
  /\ Len(attempts) <= 3
  /\ llm_calls <= 1 + 3
  /\ connections <= 3

(* ------------------------------------------------------------------ *)
(* Repeated questions on a deterministic model                         *)
(* ------------------------------------------------------------------ *)

\* the planning calls made so far: the prompt and the reply of each
PlanningCalls == {e \in llm.replies : e[1].site = "plan"}

\* no question was routed to the chat branch in one call and to planning in
\* another
SameIntentEachTime ==
  \A e1, e2 \in llm.replies :
     e1[3].question = e2[3].question =>
        (e1[1].site = "chat" <=> e2[1].site = "chat")

\* C18 as stated: on a deterministic model, the calls made with one question
\* from an empty history get the same intent and the same candidate list.
C18_SameQuestionSameCandidates ==
  /\ SameIntentEachTime
  /\ \A e1, e2 \in PlanningCalls :
        e1[3].question = e2[3].question => e2[2] = e1[2]

\* C18: on a deterministic model, two calls with one question get the same
\* intent, and the same candidate list when the history is the same at both
\* calls (the first call answered nothing, so it appended nothing).
C18_SameQuestionAndHistorySameCandidates ==
  /\ SameIntentEachTime
  /\ \A e1, e2 \in PlanningCalls :
        e1[3] = e2[3] => e2[2] = e1[2]

C18_Witness ==
  /\ asks = MaxAsks
  /\ pc = "loop"
  /\ history_at_call = <<>>
  /\ Cardinality(PlanningCalls) = 1
  /\ \E e \in PlanningCalls :
        /\ e[3] = [question |-> question, history |-> <<>>]
        /\ candidates = DictGet(e[2], "candidates")

(* ------------------------------------------------------------------ *)
(* the conversation memory                                              *)
(* ------------------------------------------------------------------ *)

\* s is the beginning of t
IsPrefix(s, t) == Len(s) <= Len(t) /\ SubSeq(t, 1, Len(s)) = s

\* the entries the running call has added to the memory
AddedTurns ==
  SubSeq(conversation_history, Len(history_at_call) + 1, Len(conversation_history))

\* the call has returned a failure message
FailureMessage ==
  /\ result.kind = "return"
  /\ result.value \in {Msg(PlanFailureMessage), Msg(NoAnswerMessage)}

\* the call has returned an answer
Answered == result.kind = "return" /\ ~FailureMessage

C21_FailureWitness ==
  /\ pc = "done"
  /\ FailureMessage
  /\ conversation_history = history_at_call

(* ------------------------------------------------------------------ *)
(* the conversational branch                                            *)
(* ------------------------------------------------------------------ *)

\* the stages of the data pipeline have left no trace in the running call:
\* no plan, no candidate worked on, no statement written, judged or run,
\* no connection asked for, no result formatted
PipelineUntouched ==
  /\ candidates = None
  /\ i = 0
  /\ sql_query = <<>>
  /\ attempts = <<>>
  /\ connections = 0
  /\ cursor_sql = None
  /\ sql_result = None
  /\ error = None
  /\ successful_result = None
  /\ formatter_calls = <<>>

\* C22: a question routed to conversation is answered by one call of the
\* language model and nothing else: from routing to the return the call
\* is at the chat step or finished, the Plan Generator, Query
\* Synthesizer, Safety Gate and Executor are never entered, no database
\* connection is opened, and the reply, stripped, is what is returned.
C22_ChatIsOneModelCallAndNoDatabase ==
  intent = "chat" =>
     /\ pc \in {"chat", "done"}
     /\ PipelineUntouched
     /\ llm_calls = (IF pc = "done" THEN 1 ELSE 0)
     /\ pc = "done" =>
           /\ result.kind = "return"
           /\ \E reply \in ChatReplies : result.value = PyStr(Strip(reply))

\* a conversational question has been answered
C22_Witness ==
  /\ intent = "chat"
  /\ pc = "done"
  /\ llm_calls = 1
  /\ result.kind = "return"
  /\ connections = 0

(* ------------------------------------------------------------------ *)
(* the Executor's connection                                            *)
(* ------------------------------------------------------------------ *)

\* the running call is inside the with block of _execute_sql
InsideExecutor == pc = "connected"

Small == {LowerLetters[k] : k \in DOMAIN LowerLetters}

Capital == {UpperLetters[k] : k \in DOMAIN UpperLetters}

Numeral == {"0","1","2","3","4","5","6","7","8","9"}

\* the piece of s from position a to position b
Piece(s, a, b) == [k \in 1..(b - a + 1) |-> s[a + k - 1]]

\* every character of s from a to b is of the class
AllOf(s, a, b, class) == \A k \in a..b : s[k] \in class

\* position p of s is outside s or holds no character of the class
Bounded(s, p, class) == p < 1 \/ p > Len(s) \/ s[p] \notin class

\* a..b is a piece of s between two separators
SeparatedPiece(s, a, b) ==
  /\ AllOf(s, a, b, Small \cup Capital \cup Numeral)
  /\ Bounded(s, a - 1, Small \cup Capital \cup Numeral)
  /\ Bounded(s, b + 1, Small \cup Capital \cup Numeral)

\* a..b is a piece of s cut at a change of case or at a digit boundary:
\* a capital with the small letters after it, a whole run of digits, or a
\* whole run of small letters that follows no letter
CasePiece(s, a, b) ==
  \/ /\ s[a] \in Capital
     /\ AllOf(s, a + 1, b, Small)
     /\ Bounded(s, b + 1, Small)
  \/ /\ AllOf(s, a, b, Numeral)
     /\ Bounded(s, a - 1, Numeral)
     /\ Bounded(s, b + 1, Numeral)
  \/ /\ AllOf(s, a, b, Small)
     /\ Bounded(s, a - 1, Small \cup Capital)
     /\ Bounded(s, b + 1, Small)

\* token is the lower-case form of a piece of the name
Yields(name, token) ==
  \E a \in 1..Len(name) : \E b \in a..Len(name) :
    /\ SeparatedPiece(name, a, b) \/ CasePiece(name, a, b)
    /\ Len(token) = b - a + 1
    /\ \A k \in 1..Len(token) : SameLetter(token[k], name[a + k - 1])

\* the values the name loop has gone through
ProcessedNames == {machine_names[k] : k \in 1..names_done}

\* C24: at every point of the name loop, every key of the vocabulary is
\* longer than two characters and holds no capital, maps to a set that
\* is not empty, and every name in that set is one of the values gone
\* through, is text, and yields the key as the lower-case form of one of
\* its pieces between separators or between case and digit boundaries.
C24_VocabularyKeysAndSets ==
  \A token \in DOMAIN machine_intelligence :
    /\ Len(token) > 2
    /\ \A k \in 1..Len(token) : token[k] \in Small \cup Numeral
    /\ machine_intelligence[token] # {}
    /\ \A name \in machine_intelligence[token] :
          /\ name \in ProcessedNames
          /\ name.tag = "str"
          /\ Yields(name.val, token)

\* two names have been gone through, one key holds both of them and
\* another key holds one
C24_Witness ==
  /\ names_done = 2
  /\ \E t \in DOMAIN machine_intelligence :
        Cardinality(machine_intelligence[t]) = 2
  /\ \E t \in DOMAIN machine_intelligence :
        Cardinality(machine_intelligence[t]) = 1

(* ------------------------------------------------------------------ *)
(* trigger phrases inside longer words                                  *)
(* ------------------------------------------------------------------ *)

\* position p of s is outside s or holds neither a letter nor a digit
WordBoundary(s, p) == Bounded(s, p, Small \cup Capital \cup Numeral)

\* word occurs in s, up to case, with no letter or digit next to it
OccursAsWholeWord(s, word) ==
  \E p \in 1..Len(s) :
    /\ p + Len(word) - 1 <= Len(s)
    /\ \A k \in 1..Len(word) : SameLetter(s[p + k - 1], word[k])
    /\ WordBoundary(s, p - 1)
    /\ WordBoundary(s, p + Len(word))

HasWholeTriggerPhrase(s) ==
  \E k \in DOMAIN general_indicators : OccursAsWholeWord(s, general_indicators[k])

\* C25: the router sends a question to the conversational branch only when
\* a trigger phrase stands in it as a whole word or phrase; a question
\* that holds trigger phrases only inside longer words is classified as
\* data and goes to the Plan Generator.
C25_TriggerInsideWordIsData ==
  [][pc = "intent"
       => IF HasWholeTriggerPhrase(question)
          THEN intent' = "chat" /\ pc' = "chat"
          ELSE intent' = "data" /\ pc' = "plan"]_vars

\* "which machine", holding "hi" only inside its two words, has been sent
\* to the conversational branch
C25_InsideWordSentToChat ==
  /\ question = <<"w","h","i","c","h"," ","m","a","c","h","i","n","e">>
  /\ ~HasWholeTriggerPhrase(question)
  /\ intent = "chat"
  /\ pc = "chat"

====
